---- MODULE Spec2Model ----
(***************************************************************************)
(* A state-machine model of the Mamba interpreter driver of TianShu:       *)
(* tianshu_core/mamba/mamba/__init__.py (load_keywords,                     *)
(* apply_random_keywords, execute), the reset helper of the interpreter    *)
(* tests, and the interpreter modules the driver calls (lexer, parser,     *)
(* environment, evaluator), which are modelled from the specification.     *)
(*                                                                         *)
(* Strings that the program builds by concatenation are sequences of       *)
(* pieces: the message "Cls: text" is <<"Cls", ": ", "text">>.             *)
(*                                                                         *)
(* The model registry of tianshu_core/utils/registry.py (LLMRegistry) and  *)
(* the constructors of the client classes it instantiates are a second,    *)
(* independent part of the model.                                          *)
(***************************************************************************)
EXTENDS Naturals, Sequences, FiniteSets

VARIABLES
    keyword_file,        \* the keyword list file: [present, lines]
    rng,                 \* state of the process-wide generator of module random
    reserved,            \* mamba.lexer.reserved: surface word -> token kind
    symbols,             \* mamba.ast.symbols: the names declared in the global table
    name_value,          \* mamba.ast.symbols: the value of the program variable name, <<>> if unset
    p_disable_warnings,  \* mamba.parser.disable_warnings
    out_h,               \* mamba.ast module-level output handler
    in_h,                \* mamba.ast module-level input handler
    pc,                  \* "idle": no call of execute; "running": inside its try block;
                         \* "returned": the call has just ended, its caller holds the result
    call,                \* arguments and locals of the current (or last) execute call
    rest,                \* res.children still to evaluate
    loop_pos,            \* position inside a while statement: "test" or "body"
    fault,               \* the exception raised inside the try block, NoFault if none
    events,              \* calls received by the output handler of the call: [stream, message]
    console,             \* what was printed on the real stdout / stderr of the process
    prompts,             \* prompts received by the input handler of the call
    raised,              \* class of the exception the call propagated to its caller
    now,                 \* wall-clock time elapsed since the call was entered
    kw_call,             \* outcome of the last apply_random_keywords call
    installs,            \* history: <<seed, map, k>> for the k-th (k <= 2) map installed for a seed
    prev,                \* history: summary of the run completed before the last one
    threads,             \* two concurrent calls of execute: position, arguments and locals of each
    delivered,           \* history: [run, kind, to] for everything a concurrent call delivered
    registry,            \* LLMRegistry._registry: entries [id, cls, config] in insertion order
    environ,             \* the environment variables the client constructors read
    reg_call,            \* the last call on the registry and its outcome
    reg_history,         \* history: id -> the class and config last passed to register_model
    reg_overrides,       \* history: the ids a client was built for with additional config
    http,                \* locals and history of the current (or last) _make_http_request call
    chat,                \* locals and history of the current (or last) send_chat call
    bench                \* locals of test_execute_generated_multi_shot and its position

vars == <<keyword_file, rng, reserved, symbols, name_value, p_disable_warnings, out_h, in_h,
          pc, call, rest, loop_pos, fault, events, console, prompts, raised, now,
          kw_call, installs, prev, threads, delivered,
          registry, environ, reg_call, reg_history, reg_overrides, http, chat, bench>>

\* the state of the model registry
registry_vars == <<registry, environ, reg_call, reg_history, reg_overrides>>

\* the state of the concurrent calls
pair_vars == <<threads, delivered>>

\* the state outside the interpreter and its single call of execute
\* the state of the HTTP client
client_vars == <<http, chat>>

\* the state outside the interpreter and its single call of execute, but for the
\* benchmark function, which calls the interpreter
ext_vars == <<pair_vars, registry_vars, client_vars>>

\* the frame of the single call of execute
frame_vars == <<pc, call, rest, loop_pos, fault, events, console, prompts, raised, now, prev>>

\* the state of the keyword engine
keyword_vars == <<keyword_file, rng, reserved, kw_call, installs>>

\* the state of the interpreter
interpreter_vars ==
    <<frame_vars, keyword_vars, symbols, name_value, p_disable_warnings, out_h, in_h>>

(***************************************************************************)
(* Bounds of the model.                                                    *)
(***************************************************************************)
\* longest keyword file, in lines
MaxLines == 3
\* longest program, in statements
MaxStmts == 2
\* the clock stops being observed after this many evaluation steps
MaxClock == 3
\* number of states of the abstract pseudo-random generator
RngMod == 8

(***************************************************************************)
(* Small helpers.                                                          *)
(***************************************************************************)
Range(s) == {s[i] : i \in 1..Len(s)}

SeqsUpTo(S, n) == UNION {[1..k -> S] : k \in 0..n}

Min(a, b) == IF a < b THEN a ELSE b

RECURSIVE NonBlank(_)
\* the lines of a file that are not blank, in file order
NonBlank(ls) ==
    IF ls = <<>> THEN <<>>
    ELSE IF Head(ls) = "" THEN NonBlank(Tail(ls))
         ELSE <<Head(ls)>> \o NonBlank(Tail(ls))

(***************************************************************************)
(* The keyword catalog.                                                    *)
(***************************************************************************)
Words == {"ka", "ko", "ku"}

Lines == Words \cup {""}

KeywordFiles ==
    {[present |-> FALSE, lines |-> <<>>]}
        \cup {[present |-> TRUE, lines |-> ls] : ls \in SeqsUpTo(Lines, MaxLines)}

\* load_keywords: one word per non-blank line; a missing file gives the empty list
load_keywords(file) ==
    IF file.present THEN NonBlank(file.lines) ELSE <<>>

(***************************************************************************)
(* The lexer's original reserved words (mamba.lexer._original_reserved),   *)
(* reduced to the two kinds the modelled programs use.                     *)
(***************************************************************************)
original_words == <<"say", "while">>

original_token_types == <<"PRINT", "WHILE">>

original_reserved ==
    [w \in Range(original_words) |->
        original_token_types[CHOOSE i \in 1..Len(original_words) : original_words[i] = w]]

(***************************************************************************)
(* The generator of module random, abstracted to a small state machine:    *)
(* seed(n) sets the state from n alone, every draw advances the state.     *)
(***************************************************************************)
Seeds == {1, 2}

SeedState(n) == (3 * n + 1) % RngMod

RngStep(s) == (5 * s + 3) % RngMod

\* random._randbelow(n) drawn in state s: the value, from the advanced state
RandBelow(n, s) == RngStep(s) % n

Swap(x, i, j) == [x EXCEPT ![i] = x[j], ![j] = x[i]]

RECURSIVE ShuffleFrom(_, _, _)
\* random.shuffle: for i from the last index down to the second, swap x[i] with
\* x[j], j drawn in 0..i.  Returns the list and the generator state.
ShuffleFrom(x, k, s) ==
    IF k < 2 THEN [list |-> x, rng |-> s]
    ELSE ShuffleFrom(Swap(x, k, RandBelow(k, s) + 1), k - 1, RngStep(s))

Shuffle(x, s) == ShuffleFrom(x, Len(x), s)

(***************************************************************************)
(* apply_random_keywords.                                                  *)
(***************************************************************************)
EmptyMap == [w \in {} |-> ""]

NoError == <<>>

NoKwCall ==
    [outcome |-> "none", seed |-> 0, keywords |-> <<>>, built |-> EmptyMap,
     cls |-> "None", error |-> NoError, printed |-> <<>>,
     reserved_before |-> original_reserved]

\* keywords[:n], a Python slice: it stops at the end of the list
Prefix(keywords, n) == SubSeq(keywords, 1, Min(n, Len(keywords)))

\* dict(zip(ks, vs)): zip stops at the shorter list, a repeated key keeps its last value
DictZip(ks, vs) ==
    LET n == Min(Len(ks), Len(vs))
        last(k) == CHOOSE i \in 1..n : ks[i] = k /\ \A j \in (i + 1)..n : ks[j] # k
    IN  [k \in {ks[i] : i \in 1..n} |-> vs[last(k)]]

\* variant: the shuffle runs on the generator as it is, without random.seed
ShuffleSeedState_Unseeded(seed, cur) == cur

\* the state random.seed(current_random_seed) leaves the generator in; cur is the state before
ShuffleSeedState(seed, cur) == SeedState(seed)

\* variant: the length of the list is not checked
TooShort_NoCheck(keywords, n) == FALSE

\* the check that the shuffled list has enough keywords
TooShort(keywords, n) == Len(keywords) < n

\* variant: the slice stops one word early
keywords_to_use_Unsliced(keywords, n) == Prefix(keywords, n - 1)

\* the words paired with the token types: keywords[:num_original_keywords]
keywords_to_use(keywords, n) == Prefix(keywords, n)

new_reserved_map(keywords) ==
    DictZip(keywords_to_use(keywords, Len(original_token_types)), original_token_types)

\* mamba.lexer.override_reserved_words accepts a map that covers every original kind
CoversAllKinds(m) == {m[k] : k \in DOMAIN m} = Range(original_token_types)

TooShortError(n, got) == <<"Keyword file is too short", n, got>>

MismatchError == <<"Keyword map does not cover the original token types">>

FileWarning(file) ==
    IF file.present THEN <<>> ELSE <<"Warning: Keyword file not found">>

\* variant: override_reserved_words runs before the length check
ReservedAfterRaise_Overridden(table, m) == m

\* lexer.reserved after the InterpreterException of the length check: the raise comes
\* before override_reserved_words(new_reserved_map), m, which is not called
ReservedAfterRaise(table, m) == table

\* history: how many times (up to 2) a map was installed for the seed
InstallCount(seed) ==
    IF \E p \in installs : p[1] = seed /\ p[3] = 2 THEN 1
    ELSE Cardinality({p \in installs : p[1] = seed})

ApplyRandomKeywords(seed) ==
    /\ pc = "idle"
    /\ LET loaded   == load_keywords(keyword_file)
           sh       == Shuffle(loaded, ShuffleSeedState(seed, rng))
           keywords == sh.list
           n        == Len(original_token_types)
           m        == new_reserved_map(keywords)
           base     == [NoKwCall EXCEPT !.seed = seed, !.keywords = keywords,
                                         !.reserved_before = reserved]
       IN  /\ rng' = sh.rng
           /\ IF TooShort(keywords, n)
              THEN /\ kw_call' = [base EXCEPT !.outcome = "raised",
                                      !.cls = "InterpreterException",
                                      !.error = TooShortError(n, Len(keywords)),
                                      !.printed = FileWarning(keyword_file)
                                                    \o <<"Error overriding keywords">>]
                   /\ reserved' = ReservedAfterRaise(reserved, m)
                   /\ UNCHANGED installs
              ELSE IF CoversAllKinds(m)
              THEN /\ kw_call' = [base EXCEPT !.outcome = "ok", !.built = m,
                                      !.printed = FileWarning(keyword_file)]
                   /\ reserved' = m
                   /\ installs' = installs \cup {<<seed, m, InstallCount(seed) + 1>>}
              ELSE /\ kw_call' = [base EXCEPT !.outcome = "raised", !.built = m,
                                      !.cls = "InterpreterException",
                                      !.error = MismatchError,
                                      !.printed = FileWarning(keyword_file)
                                                    \o <<"Error overriding keywords">>]
                   /\ UNCHANGED <<reserved, installs>>
    /\ UNCHANGED <<keyword_file, symbols, p_disable_warnings, out_h, in_h, pc, call,
                   rest, loop_pos, fault, events, console, prompts, raised, now, prev>>
    /\ UNCHANGED ext_vars
    /\ UNCHANGED name_value

\* another user of the process-wide generator: main's random.choice(keywords)
OtherRandomUse ==
    /\ pc = "idle"
    /\ rng' = RngStep(rng)
    /\ UNCHANGED <<keyword_file, reserved, symbols, p_disable_warnings, out_h, in_h, pc,
                   call, rest, loop_pos, fault, events, console, prompts, raised, now,
                   kw_call, installs, prev>>
    /\ UNCHANGED <<ext_vars, bench>>
    /\ UNCHANGED name_value

(***************************************************************************)
(* Programs.  A program is a list of statements written with the original  *)
(* keywords:                                                               *)
(*   "say"   say "Hello World";            "ask"  name = ask("...");       *)
(*   "div"   x = 10 / 0;                   "loop" while (1 == 1) { }       *)
(*   "junk"  text the grammar rejects                                      *)
(*   "greet" say "Hello, " + name + "!";                                   *)
(***************************************************************************)
StmtKinds == {"say", "ask", "div", "loop"}

JunkProgram == <<"junk">>

Programs == SeqsUpTo(StmtKinds, MaxStmts) \cup {JunkProgram}

\* the programs of at most one statement
ShortPrograms == SeqsUpTo(StmtKinds, 1) \cup {JunkProgram}

\* the program of the input-handler test:
\*   name = ask("Enter your name: "); say "Hello, " + name + "!";
InputExample == <<"ask", "greet">>

\* the program of the embedding example: a say, the division by zero, a say
EmbeddedExample == <<"say", "div", "say">>

\* the token kinds of the keywords of a statement, in the order of its text
StmtKeywords(stmt) ==
    CASE stmt \in {"say", "greet"} -> <<"PRINT">>
      [] stmt = "loop" -> <<"WHILE">>
      [] OTHER -> <<>>

\* the other words of the text of a statement, which its author means as identifiers:
\* the variable of the input example, the builtin ask, the variable of the division
StmtIdentifiers(stmt) ==
    CASE stmt = "greet" -> <<"name">>
      [] stmt = "ask" -> <<"name", "ask">>
      [] stmt = "div" -> <<"x">>
      [] OTHER -> <<>>

\* the word an author writes for a token kind when writing in a vocabulary
WordFor(kind, vocabulary) ==
    IF \E w \in DOMAIN vocabulary : vocabulary[w] = kind
    THEN CHOOSE w \in DOMAIN vocabulary : vocabulary[w] = kind
    ELSE ""

\* the words of the text of a statement written in a vocabulary: the word of the
\* vocabulary for each of its keywords, then its identifiers as they are
StmtWords(stmt, vocabulary) ==
    [i \in 1..Len(StmtKeywords(stmt)) |-> WordFor(StmtKeywords(stmt)[i], vocabulary)]
        \o StmtIdentifiers(stmt)

\* the lexer looks a word up in the reserved table; a word that is not reserved is an identifier
TokenKind(word, table) == IF word \in DOMAIN table THEN table[word] ELSE "IDENTIFIER"

\* the token kinds the lexer gives the words of a text under a reserved table
Lex(words, table) == [i \in 1..Len(words) |-> TokenKind(words[i], table)]

\* the token kinds the grammar expects of the words of a statement
Grammar(stmt) ==
    StmtKeywords(stmt) \o [i \in 1..Len(StmtIdentifiers(stmt)) |-> "IDENTIFIER"]

\* the statement parses: its words lex to the kinds the grammar expects
StmtParses(stmt, vocabulary, table) ==
    /\ stmt # "junk"
    /\ Lex(StmtWords(stmt, vocabulary), table) = Grammar(stmt)

\* a program written in a vocabulary parses with the table of the lexer
Parses(source, vocabulary, table) ==
    \A i \in 1..Len(source) : StmtParses(source[i], vocabulary, table)

\* variant: the parser always lexes with the original table
ParserTable_Original(table) == original_reserved

\* line 108: the parser lexes with the process-wide table as it stands
ParserTable(table) == table

(***************************************************************************)
(* Exceptions and messages.                                                *)
(***************************************************************************)
NoFault == [cls |-> "None", text |-> <<>>]

SyntaxFault == [cls |-> "ParserSyntaxError", text |-> <<"Unexpected token">>]

DuplicateSymbolFault(name) ==
    [cls |-> "DuplicateSymbol", text |-> <<"Cannot redeclare function '", name, "'">>]

\* the exception of BinaryOperation for 10 / 0, as the embedding example records it
DivisionFault ==
    [cls |-> "InterpreterRuntimeError",
     text |-> <<"Unable to apply operation (int: 10) / (int: 0)">>]

\* the exception of an output handler that fails
OutputHandlerFault == [cls |-> "OutputHandlerError", text |-> <<"output handler failed">>]

\* the exception of a reference to a name that is not declared
UnknownSymbolFault(name) ==
    [cls |-> "SymbolNotFound", text |-> <<"Undefined variable '", name, "'">>]


\* variant: the message is str(e) alone
error_message_NoClass(e) == e.text

\* f"{e.__class__.__name__}: {str(e)}"
error_message(e) == <<e.cls, ": ">> \o e.text

\* the stream the except block reports on
ErrorStream == "stderr"

Event(stream, message) == [stream |-> stream, message |-> message]

(***************************************************************************)
(* to a log; "raising" raises on every call.  "mock" is the handler of the *)
(* input-handler test: it holds one value and falls back on a default.     *)
(* The benchmark's handler holds the input values of the test case and     *)
(* raises when they are used up, with a text of its own on the last shot:  *)
(* "exhausted" and "exhausted_last" hold no value, "one_value" and         *)
(* "one_value_last" hold one.                                              *)
(***************************************************************************)
OutputHandlers == {"None", "collect", "raising"}

InputHandlers == {"None", "mock", "exhausted"}

HarnessHandlers == {"exhausted", "exhausted_last", "one_value", "one_value_last"}

\* len(input_values) of the benchmark's handler
InputValues(ih) == IF ih \in {"one_value", "one_value_last"} THEN 1 ELSE 0

\* if input_index < len(input_values) fails: the handler raises at its call number
\* asked + 1
HandlerRaises(ih, asked) == ih \in HarnessHandlers /\ ~(asked < InputValues(ih))

\* the ValueError of the benchmark's input handler when its inputs are used up: on a
\* shot before the last, and on the last shot, where the text holds the prompt
InputHandlerFault(ih, prompt) ==
    [cls |-> "ValueError",
     text |-> IF ih \in {"exhausted_last", "one_value_last"}
              THEN <<"No more input values available. Program requested input with prompt: '">>
                       \o prompt \o <<"'">>
              ELSE <<"No more input values available. Program requested too many inputs.">>]

\* the string an input handler returns at its call number asked + 1; without a handler
\* the line read from the console
Answer(ih, asked) ==
    CASE ih = "mock" -> IF asked = 0 THEN "Test User" ELSE "Default input"
      [] ih \in HarnessHandlers -> "Test User"
      [] ih = "answers_a" -> "Ann"
      [] ih = "answers_b" -> "Bob"
      [] OTHER -> "console input"

(***************************************************************************)
(* The global symbol table and environment.declare_env.                    *)
(***************************************************************************)
Builtins == <<"int", "str", "ask">>

\* the first builtin that is already declared, 0 if none is
FirstDeclared(table) ==
    IF \E i \in 1..Len(Builtins) : Builtins[i] \in table
    THEN CHOOSE i \in 1..Len(Builtins) :
            Builtins[i] \in table /\ \A j \in 1..(i - 1) : Builtins[j] \notin table
    ELSE 0

\* variant: the table is reset before the builtins are declared
EnvTable_Reset(table) == {}

\* the table declare_env works on: execute passes mamba.ast.symbols as it is
\* (the reset before declare_env is commented out)
EnvTable(table) == table

\* declare_env(table): declares the builtins in order; redeclaring one raises
declare_env(table) ==
    LET k == FirstDeclared(table)
    IN  IF k = 0
        THEN [table |-> table \cup Range(Builtins), fault |-> NoFault]
        ELSE [table |-> table \cup {Builtins[j] : j \in 1..(k - 1)},
              fault |-> DuplicateSymbolFault(Builtins[k])]

(***************************************************************************)
(* execute.                                                                *)
(***************************************************************************)
\* max_execution_time_seconds: 0 stands for None (and 0), both skip the deadline
NoTimeLimit == 0

\* the largest number of seconds datetime.now() + timedelta(seconds = s) can represent
MaxDelta == 5

TimeLimits == {NoTimeLimit, 1, MaxDelta + 1}

\* random_seed = None
NoSeed == 0

NoCall ==
    [made |-> FALSE, source |-> <<>>, show_ast |-> FALSE, disable_warnings |-> TRUE,
     output_handler |-> "None", input_handler |-> "None",
     original_output_handler |-> "None", original_input_handler |-> "None",
     max_time |-> NoTimeLimit, end_time |-> 0, entered |-> FALSE,
     random_seed |-> NoSeed, random_seed_was_set |-> FALSE,
     vocabulary |-> original_reserved, symbols_before |-> {}, name_before |-> <<>>,
     reserved_before |-> original_reserved, disable_warnings_before |-> FALSE]

\* the deadline cannot be computed: datetime.now() + timedelta(...) overflows
DeadlineFails(max_time) == max_time # NoTimeLimit /\ max_time > MaxDelta

RunSummary ==
    [source |-> call.source, output_handler |-> call.output_handler,
     input_handler |-> call.input_handler, events |-> events, prompts |-> prompts,
     raised |-> raised]

\* the arguments of a call of execute; vocabulary is the keyword table the source
\* text is written in, the original one unless stated
ExecuteArgs(sources, shows, dws, seeds, seedsets, ohs, ihs, limits) ==
    [source : sources, show_ast : shows, disable_warnings : dws, random_seed : seeds,
     random_seed_was_set : seedsets, output_handler : ohs, input_handler : ihs,
     max_time : limits, vocabulary : {original_reserved}]

\* variant: the output handler passed to the call is not installed
InstalledOutputHandler_None(h) == "None"

\* line 95: the module-level output handler becomes the one passed to the call
InstalledOutputHandler(h) == h

\* variant: the input handler passed to the call is not installed
InstalledInputHandler_None(h) == "None"

\* line 96: the module-level input handler becomes the one passed to the call
InstalledInputHandler(h) == h

\* lines 90-112: install the handlers, compute the deadline, seed, parse, declare the builtins
\* variant: the assignment to the parser's flag is missing
SetDisableWarnings_Kept(current, disable_warnings) == current

\* p.disable_warnings = disable_warnings, the first statement of execute
SetDisableWarnings(current, disable_warnings) == disable_warnings

\* variant: execute puts the original keywords back
ExecuteReserved_Reset(table, random_seed, random_seed_was_set) == original_reserved

\* lexer.reserved as execute leaves it when it handles the seed: the keyword override
\* is the caller's work, execute only seeds the generator
ExecuteReserved(table, random_seed, random_seed_was_set) == table

\* variant: execute does not seed the generator
ExecuteSeedState_Unseeded(random_seed, cur) == cur

\* the state random.seed(random_seed) leaves the generator in; cur is the state before
ExecuteSeedState(random_seed, cur) == SeedState(random_seed)

Enter(a) ==
    /\ pc = "idle"
    /\ p_disable_warnings' = SetDisableWarnings(p_disable_warnings, a.disable_warnings)
    /\ out_h' = InstalledOutputHandler(a.output_handler)
    /\ in_h' = InstalledInputHandler(a.input_handler)
    /\ events' = <<>>
    /\ console' = <<>>
    /\ prompts' = <<>>
    /\ now' = 0
    /\ loop_pos' = "test"
    /\ LET base == [made |-> TRUE, source |-> a.source, show_ast |-> a.show_ast,
                    disable_warnings |-> a.disable_warnings,
                    output_handler |-> a.output_handler,
                    input_handler |-> a.input_handler,
                    original_output_handler |-> out_h, original_input_handler |-> in_h,
                    max_time |-> a.max_time, end_time |-> 0, entered |-> FALSE,
                    random_seed |-> a.random_seed,
                    random_seed_was_set |-> a.random_seed_was_set,
                    vocabulary |-> a.vocabulary, symbols_before |-> symbols,
                    name_before |-> name_value, reserved_before |-> reserved,
                    disable_warnings_before |-> p_disable_warnings]
       IN  IF DeadlineFails(a.max_time)
           THEN \* raised before the try statement: nothing catches it, no finally runs
                /\ call' = base
                /\ pc' = "returned"
                /\ raised' = "OverflowError"
                /\ fault' = NoFault
                /\ rest' = <<>>
                /\ UNCHANGED <<rng, symbols, reserved>>
           ELSE /\ call' = [base EXCEPT !.entered = TRUE, !.end_time = a.max_time]
                /\ reserved' = ExecuteReserved(reserved, a.random_seed, a.random_seed_was_set)
                /\ pc' = "running"
                /\ raised' = "None"
                /\ IF ~a.random_seed_was_set THEN rng' = rng
                   ELSE IF a.random_seed = NoSeed THEN rng' \in 0..(RngMod - 1)
                   ELSE rng' = ExecuteSeedState(a.random_seed, rng)
                /\ IF ~Parses(a.source, a.vocabulary, ParserTable(reserved))
                   THEN /\ fault' = SyntaxFault
                        /\ rest' = <<>>
                        /\ symbols' = symbols
                   ELSE LET env == declare_env(EnvTable(symbols))
                        IN  /\ symbols' = env.table
                            /\ fault' = env.fault
                            /\ rest' = IF env.fault = NoFault THEN a.source ELSE <<>>
    /\ UNCHANGED <<keyword_file, kw_call, installs, prev>>
    /\ UNCHANGED ext_vars
    /\ UNCHANGED name_value

\* node.eval() of one statement by the evaluator, with the module-level handlers oh
\* and ih, the value of the variable name and the number of calls the input handler
\* has answered: what it sends to the output handler, prints, asks the input handler,
\* the value of name afterwards, the exception it raises, and whether the statement
\* completes
Eval(stmt, oh, ih, name, asked) ==
    LET prompt  == <<"Enter your name: ">>
        nothing == [events |-> <<>>, console |-> <<>>, prompts |-> <<>>, name |-> name,
                    fault |-> NoFault, completes |-> TRUE]
        hello   == Event("stdout", <<"Hello World">>)
        greet   == Event("stdout", <<"Hello, ">> \o name \o <<"!">>)
    IN  CASE stmt = "say" ->
               [nothing EXCEPT !.events = IF oh = "None" THEN <<>> ELSE <<hello>>,
                               !.console = IF oh = "None" THEN <<hello>> ELSE <<>>,
                               !.fault = IF oh = "raising" THEN OutputHandlerFault
                                         ELSE NoFault]
          [] stmt = "ask" ->
               [nothing EXCEPT !.prompts = IF ih = "None" THEN <<>>
                                           ELSE <<prompt>>,
                               !.name = IF HandlerRaises(ih, asked) THEN name
                                        ELSE <<Answer(ih, asked)>>,
                               !.fault = IF HandlerRaises(ih, asked)
                                         THEN InputHandlerFault(ih, prompt)
                                         ELSE NoFault]
          [] stmt = "greet" ->
               IF name = <<>> THEN [nothing EXCEPT !.fault = UnknownSymbolFault("name")]
               ELSE [nothing EXCEPT !.events = IF oh = "None" THEN <<>> ELSE <<greet>>,
                                    !.console = IF oh = "None" THEN <<greet>> ELSE <<>>,
                                    !.fault = IF oh = "raising" THEN OutputHandlerFault
                                              ELSE NoFault]
          [] stmt = "div" -> [nothing EXCEPT !.fault = DivisionFault]
          [] stmt = "loop" ->
               \* the condition is true on every test: the statement never completes
               [nothing EXCEPT !.completes = FALSE]

\* variant: the loop goes on to the next node after an exception
LoopContinues_PastFault(f, r) == r # <<>>

\* lines 114-115: the for loop takes the next node while no exception has left the
\* try block and nodes remain
LoopContinues(f, r) == f = NoFault /\ r # <<>>

\* lines 114-115: for node in res.children: node.eval().  One step of the evaluator;
\* nothing compares the clock with the deadline of the call.
EvalNode ==
    /\ pc = "running"
    /\ LoopContinues(fault, rest)
    /\ now' = Min(now + 1, MaxClock)
    /\ LET r == Eval(Head(rest), out_h, in_h, name_value, Len(prompts))
       IN  /\ events' = events \o r.events
           /\ name_value' = r.name
           /\ console' = console \o r.console
           /\ prompts' = prompts \o r.prompts
           /\ fault' = r.fault
           /\ rest' = IF r.completes THEN Tail(rest) ELSE rest
           /\ loop_pos' = IF r.completes THEN "test"
                          ELSE IF loop_pos = "test" THEN "body" ELSE "test"
    /\ UNCHANGED <<keyword_file, rng, reserved, symbols, p_disable_warnings, out_h, in_h,
                   pc, call, raised, kw_call, installs, prev>>
    /\ UNCHANGED <<ext_vars, bench>>

\* lines 117-127: the syntax tree goes to the handler passed to the call
AstFault == IF call.output_handler = "raising" THEN OutputHandlerFault ELSE NoFault

\* lines 117-141: show_ast, the except block, the finally block
Finish ==
    /\ pc = "running"
    /\ ~LoopContinues(fault, rest)
    /\ LET ast     == fault = NoFault /\ call.show_ast
           e       == IF ast THEN AstFault ELSE fault
           astEv   == IF ast /\ call.output_handler # "None"
                      THEN <<Event("stdout", <<"Syntax tree">>)>> ELSE <<>>
           astCon  == IF ast
                      THEN <<Event("stdout", <<"Syntax tree header">>)>>
                             \o (IF call.output_handler = "None"
                                 THEN <<Event("stdout", <<"Syntax tree">>)>> ELSE <<>>)
                      ELSE <<>>
           report  == Event(ErrorStream, error_message(e))
           errEv   == IF e # NoFault /\ call.output_handler # "None"
                      THEN <<report>> ELSE <<>>
           errCon  == IF e # NoFault /\ call.output_handler = "None"
                      THEN <<report>> ELSE <<>>
       IN  /\ fault' = e
           /\ events' = events \o astEv \o errEv
           /\ console' = console \o astCon \o errCon
           /\ raised' = IF e = NoFault THEN "None"
                        ELSE IF call.output_handler = "raising" THEN OutputHandlerFault.cls
                        ELSE IF ~call.disable_warnings THEN e.cls
                        ELSE "None"
    /\ out_h' = call.original_output_handler
    /\ in_h' = call.original_input_handler
    /\ pc' = "returned"
    /\ UNCHANGED <<keyword_file, rng, reserved, symbols, p_disable_warnings, call, rest,
                   loop_pos, prompts, now, kw_call, installs, prev>>
    /\ UNCHANGED <<ext_vars, bench>>
    /\ UNCHANGED name_value

\* The call is over, by return or by exception: its frame is gone.  With track, the
\* history keeps a summary of the run for the next one to be compared with.  What
\* the caller does to the reserved words on the way out is the caller's part.
ReturnFrame(track) ==
    /\ pc = "returned"
    /\ pc' = "idle"
    /\ prev' = IF track THEN <<RunSummary>> ELSE <<>>
    /\ call' = NoCall
    /\ events' = <<>>
    /\ console' = <<>>
    /\ prompts' = <<>>
    /\ raised' = "None"
    /\ fault' = NoFault
    /\ rest' = <<>>
    /\ now' = 0
    /\ loop_pos' = "test"
    /\ UNCHANGED <<keyword_file, rng, symbols, p_disable_warnings, out_h, in_h,
                   kw_call, installs>>
    /\ UNCHANGED ext_vars
    /\ UNCHANGED name_value

\* The caller takes the result and goes on with the reserved words as execute left them.
Return(track) == ReturnFrame(track) /\ UNCHANGED reserved

\* reset_mamba_state of the interpreter tests
ResetMambaState ==
    /\ pc = "idle"
    /\ symbols' = {}
    /\ name_value' = <<>>
    /\ reserved' = original_reserved
    /\ out_h' = "None"
    /\ p_disable_warnings' = FALSE
    /\ prev' = <<>>
    /\ UNCHANGED <<keyword_file, rng, in_h, pc, call, rest, loop_pos, fault, events,
                   console, prompts, raised, now, kw_call, installs>>
    /\ UNCHANGED ext_vars

(***************************************************************************)
(* Two calls of execute running concurrently in one process (two threads). *)
(* Each numbered line of execute that reads or writes the module-level     *)
(* handlers is one step; the steps of the two calls interleave freely.     *)
(***************************************************************************)
Runs == {1, 2}

IdleThread ==
    [pc |-> "none", source |-> <<>>, output_handler |-> "None", input_handler |-> "None",
     original_output_handler |-> "None", original_input_handler |-> "None",
     rest |-> <<>>, fault |-> NoFault]

\* the handlers each concurrent call passes: its own log and its own answers
PairOutputHandler(r) == IF r = 1 THEN "log_a" ELSE "log_b"

PairInputHandler(r) == IF r = 1 THEN "answers_a" ELSE "answers_b"

PairPrograms == {<<"say">>, <<"ask">>, <<"div">>}

Delivery(r, kind, to) == [run |-> r, kind |-> kind, to |-> to]

\* line 90 and line 93
ThreadSaveOutput(r) ==
    /\ threads[r].pc = "start"
    /\ p_disable_warnings' = TRUE
    /\ threads' = [threads EXCEPT ![r].pc = "saved_output",
                                  ![r].original_output_handler = out_h]
    /\ UNCHANGED <<frame_vars, keyword_vars, symbols, out_h, in_h, delivered>>
    /\ UNCHANGED name_value
    /\ UNCHANGED <<registry_vars, client_vars, bench>>

\* line 94
ThreadSaveInput(r) ==
    /\ threads[r].pc = "saved_output"
    /\ threads' = [threads EXCEPT ![r].pc = "saved_input",
                                  ![r].original_input_handler = in_h]
    /\ UNCHANGED <<frame_vars, keyword_vars, symbols, p_disable_warnings, out_h, in_h,
                   delivered>>
    /\ UNCHANGED name_value
    /\ UNCHANGED <<registry_vars, client_vars, bench>>

\* line 95
ThreadSetOutput(r) ==
    /\ threads[r].pc = "saved_input"
    /\ out_h' = InstalledOutputHandler(threads[r].output_handler)
    /\ threads' = [threads EXCEPT ![r].pc = "set_output"]
    /\ UNCHANGED <<frame_vars, keyword_vars, symbols, p_disable_warnings, in_h, delivered>>
    /\ UNCHANGED name_value
    /\ UNCHANGED <<registry_vars, client_vars, bench>>

\* line 96
ThreadSetInput(r) ==
    /\ threads[r].pc = "set_output"
    /\ in_h' = InstalledInputHandler(threads[r].input_handler)
    /\ threads' = [threads EXCEPT ![r].pc = "set_input"]
    /\ UNCHANGED <<frame_vars, keyword_vars, symbols, p_disable_warnings, out_h, delivered>>
    /\ UNCHANGED name_value
    /\ UNCHANGED <<registry_vars, client_vars, bench>>

\* lines 108-112: parse, declare the builtins in the shared symbol table
ThreadSetup(r) ==
    /\ threads[r].pc = "set_input"
    /\ IF ~Parses(threads[r].source, original_reserved, ParserTable(reserved))
       THEN /\ threads' = [threads EXCEPT ![r].pc = "eval", ![r].fault = SyntaxFault]
            /\ symbols' = symbols
       ELSE LET env == declare_env(EnvTable(symbols))
            IN  /\ symbols' = env.table
                /\ threads' = [threads EXCEPT
                                  ![r].pc = "eval",
                                  ![r].fault = env.fault,
                                  ![r].rest = IF env.fault = NoFault
                                              THEN threads[r].source ELSE <<>>]
    /\ UNCHANGED <<frame_vars, keyword_vars, p_disable_warnings, out_h, in_h, delivered>>
    /\ UNCHANGED name_value
    /\ UNCHANGED <<registry_vars, client_vars, bench>>

\* lines 114-115: the node reads the module-level handlers when it is evaluated
ThreadEvalNode(r) ==
    /\ threads[r].pc = "eval"
    /\ LoopContinues(threads[r].fault, threads[r].rest)
    /\ LET stmt == Head(threads[r].rest)
           res  == Eval(stmt, out_h, in_h, name_value, 0)
           outs == IF res.events # <<>> \/ res.console # <<>>
                   THEN {Delivery(r, "stdout", out_h)} ELSE {}
           asks == IF stmt = "ask" THEN {Delivery(r, "prompt", in_h)} ELSE {}
       IN  /\ delivered' = delivered \cup outs \cup asks
           /\ name_value' = res.name
           /\ threads' = [threads EXCEPT
                             ![r].fault = res.fault,
                             ![r].rest = IF res.completes THEN Tail(threads[r].rest)
                                         ELSE threads[r].rest]
    /\ UNCHANGED <<frame_vars, keyword_vars, symbols, p_disable_warnings, out_h, in_h>>
    /\ UNCHANGED <<registry_vars, client_vars, bench>>

\* lines 129-137: the except block reports to the handler passed to the call
ThreadExcept(r) ==
    /\ threads[r].pc = "eval"
    /\ ~LoopContinues(threads[r].fault, threads[r].rest)
    /\ delivered' = IF threads[r].fault = NoFault THEN delivered
                    ELSE delivered \cup {Delivery(r, ErrorStream, threads[r].output_handler)}
    /\ threads' = [threads EXCEPT ![r].pc = "finally"]
    /\ UNCHANGED <<frame_vars, keyword_vars, symbols, p_disable_warnings, out_h, in_h>>
    /\ UNCHANGED name_value
    /\ UNCHANGED <<registry_vars, client_vars, bench>>

\* line 140
ThreadRestoreOutput(r) ==
    /\ threads[r].pc = "finally"
    /\ out_h' = threads[r].original_output_handler
    /\ threads' = [threads EXCEPT ![r].pc = "restored_output"]
    /\ UNCHANGED <<frame_vars, keyword_vars, symbols, p_disable_warnings, in_h, delivered>>
    /\ UNCHANGED name_value
    /\ UNCHANGED <<registry_vars, client_vars, bench>>

\* line 141
ThreadRestoreInput(r) ==
    /\ threads[r].pc = "restored_output"
    /\ in_h' = threads[r].original_input_handler
    /\ threads' = [threads EXCEPT ![r].pc = "done"]
    /\ UNCHANGED <<frame_vars, keyword_vars, symbols, p_disable_warnings, out_h, delivered>>
    /\ UNCHANGED name_value
    /\ UNCHANGED <<registry_vars, client_vars, bench>>

(***************************************************************************)
(* The model registry.  A config is a function from option names to        *)
(* values; a value that is not set (None in Python) is "None".             *)
(***************************************************************************)
ClientClasses ==
    {"OllamaClient", "SambaNovaClient", "ChutesClient", "NvidiaClient", "OpenRouterClient",
     "AnthropicClient", "OpenAIClient", "GeminiClient"}

RegistryEntry(id, cls, config) == [id |-> id, cls |-> cls, config |-> config]

\* registry.py lines 47-216: the registry after __init__, in the order of its keys;
\* a number is written as Python prints it, a nested dict as its items
PredefinedRegistry ==
    <<RegistryEntry("ollama/phi4:14b-q4_K_M", "OllamaClient",
                    [model |-> "phi4:14b-q4_K_M", options |-> "num_ctx: 1000"]),
      RegistryEntry("ollama/deepseek-r1:14b", "OllamaClient",
                    [model |-> "deepseek-r1:14b", options |-> "num_ctx: 1000"]),
      RegistryEntry("ollama/qwen3:14b", "OllamaClient",
                    [model |-> "qwen3:14b", options |-> "num_ctx: 1000"]),
      RegistryEntry("ollama/qwen2.5:0.5b", "OllamaClient",
                    [model |-> "qwen2.5:0.5b", options |-> "num_ctx: 1000"]),
      RegistryEntry("ollama/glm4:9b", "OllamaClient",
                    [model |-> "glm4:9b", options |-> "num_ctx: 1000"]),
      RegistryEntry("sambanova/DeepSeek-R1", "SambaNovaClient",
                    [model |-> "DeepSeek-R1"]),
      RegistryEntry("sambanova/DeepSeek-V3-0324", "SambaNovaClient",
                    [model |-> "DeepSeek-V3-0324"]),
      RegistryEntry("sambanova/Llama-4-Maverick-17B-128E-Instruct", "SambaNovaClient",
                    [model |-> "Llama-4-Maverick-17B-128E-Instruct"]),
      RegistryEntry("sambanova/Llama-4-Scout-17B-16E-Instruct", "SambaNovaClient",
                    [model |-> "Llama-4-Scout-17B-16E-Instruct"]),
      RegistryEntry("sambanova/QwQ-32B", "SambaNovaClient",
                    [model |-> "QwQ-32B"]),
      RegistryEntry("sambanova/Qwen3-32B", "SambaNovaClient",
                    [model |-> "Qwen3-32B"]),
      RegistryEntry("chutes/zai-org/GLM-4.5-Air", "ChutesClient",
                    [model |-> "zai-org/GLM-4.5-Air", context_length |-> "58000",
                     temperature |-> "0.7"]),
      RegistryEntry("chutes/moonshotai/Kimi-K2-Instruct", "ChutesClient",
                    [model |-> "moonshotai/Kimi-K2-Instruct", context_length |-> "31000",
                     temperature |-> "0.7"]),
      RegistryEntry("chutes/deepseek-ai/DeepSeek-R1-0528", "ChutesClient",
                    [model |-> "deepseek-ai/DeepSeek-R1-0528", context_length |-> "128000",
                     temperature |-> "0.7"]),
      RegistryEntry("chutes/deepseek-ai/DeepSeek-R1", "ChutesClient",
                    [model |-> "deepseek-ai/DeepSeek-R1", context_length |-> "128000",
                     temperature |-> "0.6", top_p |-> "0.7"]),
      RegistryEntry("chutes/deepseek-ai/DeepSeek-V3-0324", "ChutesClient",
                    [model |-> "deepseek-ai/DeepSeek-V3-0324", context_length |-> "128000",
                     temperature |-> "0.7"]),
      RegistryEntry("chutes/ddeepseek-ai/DeepSeek-R1-0528-Qwen3-8B", "ChutesClient",
                    [model |-> "ddeepseek-ai/DeepSeek-R1-0528-Qwen3-8B",
                     context_length |-> "128000", temperature |-> "0.7"]),
      RegistryEntry("chutes/Qwen/Qwen3-235B-A22B", "ChutesClient",
                    [model |-> "Qwen/Qwen3-235B-A22B", context_length |-> "32000",
                     temperature |-> "0.7"]),
      RegistryEntry("chutes/Qwen/Qwen3-30B-A3B", "ChutesClient",
                    [model |-> "Qwen/Qwen3-30B-A3B", context_length |-> "32000",
                     temperature |-> "0.7"]),
      RegistryEntry("chutes/Qwen/Qwen3-14B", "ChutesClient",
                    [model |-> "Qwen/Qwen3-14B", context_length |-> "32000",
                     temperature |-> "0.7"]),
      RegistryEntry("chutes/THUDM/GLM-4-32B-0414", "ChutesClient",
                    [model |-> "THUDM/GLM-4-32B-0414", context_length |-> "32000",
                     temperature |-> "0.7"]),
      RegistryEntry("chutes/chutesai/Llama-4-Maverick-17B-128E-Instruct-FP8", "ChutesClient",
                    [model |-> "chutesai/Llama-4-Maverick-17B-128E-Instruct-FP8",
                     context_length |-> "128000", temperature |-> "0.0"]),
      RegistryEntry("chutes/chutesai/Llama-4-Scout-17B-16E-Instruct", "ChutesClient",
                    [model |-> "chutesai/Llama-4-Scout-17B-16E-Instruct",
                     context_length |-> "32000", temperature |-> "0.0"]),
      RegistryEntry("chutes/unsloth/gemma-3-27b-it", "ChutesClient",
                    [model |-> "unsloth/gemma-3-27b-it", context_length |-> "32000",
                     temperature |-> "0.7"]),
      RegistryEntry("chutes/meta-llama/Llama-3-70B-Instruct", "ChutesClient",
                    [model |-> "meta-llama/Llama-3-70B-Instruct", context_length |-> "32000",
                     temperature |-> "0.7"]),
      RegistryEntry("chutes/mistralai/Mistral-7B-Instruct-v0.2", "ChutesClient",
                    [model |-> "mistralai/Mistral-7B-Instruct-v0.2",
                     context_length |-> "32000", temperature |-> "0.7"]),
      RegistryEntry("nvidia/meta/llama-4-maverick-17b-128e-instruct", "NvidiaClient",
                    [model |-> "meta/llama-4-maverick-17b-128e-instruct",
                     context_length |-> "128000", max_tokens |-> "32000",
                     temperature |-> "0.7"]),
      RegistryEntry("nvidia/meta/llama-4-scout-17b-16e-instruct", "NvidiaClient",
                    [model |-> "meta/llama-4-scout-17b-16e-instruct",
                     context_length |-> "128000", max_tokens |-> "32000",
                     temperature |-> "0.7"]),
      RegistryEntry("nvidia/qwen/qwen3-235b-a22b", "NvidiaClient",
                    [model |-> "qwen/qwen3-235b-a22b", context_length |-> "128000",
                     max_tokens |-> "32000", temperature |-> "0.2", top_p |-> "0.7",
                     extra_body |-> "chat_template_kwargs: {thinking: True}"]),
      RegistryEntry("nvidia/qwen/qwq-32b", "NvidiaClient",
                    [model |-> "qwen/qwq-32b", context_length |-> "32000",
                     max_tokens |-> "32000", temperature |-> "0.6", top_p |-> "0.7"]),
      RegistryEntry("nvidia/deepseek-ai/deepseek-r1-0528", "NvidiaClient",
                    [model |-> "deepseek-ai/deepseek-r1-0528", context_length |-> "128000",
                     max_tokens |-> "32000", temperature |-> "0.7"]),
      RegistryEntry("nvidia/deepseek-ai/deepseek-r1-distill-qwen-32b", "NvidiaClient",
                    [model |-> "deepseek-ai/deepseek-r1-distill-qwen-32b",
                     context_length |-> "32000", max_tokens |-> "32000",
                     temperature |-> "0.6", top_p |-> "0.7"]),
      RegistryEntry("nvidia/deepseek-ai/deepseek-r1", "NvidiaClient",
                    [model |-> "deepseek-ai/deepseek-r1", context_length |-> "128000",
                     max_tokens |-> "32000", temperature |-> "0.6", top_p |-> "0.7"]),
      RegistryEntry("nvidia/openai/gpt-oss-20b", "NvidiaClient",
                    [model |-> "openai/gpt-oss-20b", context_length |-> "128000",
                     max_tokens |-> "32000", temperature |-> "1", top_p |-> "1"]),
      RegistryEntry("nvidia/openai/gpt-oss-120b", "NvidiaClient",
                    [model |-> "openai/gpt-oss-120b", context_length |-> "128000",
                     max_tokens |-> "32000", temperature |-> "1", top_p |-> "1"]),
      RegistryEntry("nvidia/moonshotai/kimi-k2-instruct", "NvidiaClient",
                    [model |-> "moonshotai/kimi-k2-instruct", context_length |-> "31000",
                     max_tokens |-> "25000", temperature |-> "0.6", top_p |-> "0.9"]),
      RegistryEntry("nvidia/microsoft/phi-4-mini-instruct", "NvidiaClient",
                    [model |-> "microsoft/phi-4-mini-instruct", context_length |-> "128000",
                     max_tokens |-> "32000", temperature |-> "0.1", top_p |-> "0.6"]),
      RegistryEntry("openrouter/openrouter/horizon-alpha", "OpenRouterClient",
                    [model |-> "openrouter/horizon-alpha", temperature |-> "0.7",
                     max_tokens |-> "32000"]),
      RegistryEntry("anthropic/claude-opus-4-20250514", "AnthropicClient",
                    [model |-> "claude-opus-4-20250514", temperature |-> "0.7",
                     max_tokens |-> "31000"]),
      RegistryEntry("anthropic/claude-sonnet-4-20250514", "AnthropicClient",
                    [model |-> "claude-sonnet-4-20250514", temperature |-> "0.7",
                     max_tokens |-> "32000"]),
      RegistryEntry("anthropic/claude-opus-4-1-20250805", "AnthropicClient",
                    [model |-> "claude-opus-4-1-20250805", temperature |-> "0.7",
                     max_tokens |-> "32000"]),
      RegistryEntry("anthropic/claude-3-7-sonnet-20250219", "AnthropicClient",
                    [model |-> "claude-3-7-sonnet-20250219", temperature |-> "0.7",
                     max_tokens |-> "32000"]),
      RegistryEntry("anthropic/claude-3-5-sonnet-20241022", "AnthropicClient",
                    [model |-> "claude-3-5-sonnet-20241022", temperature |-> "0.7",
                     max_tokens |-> "8000"]),
      RegistryEntry("anthropic/claude-3-5-haiku-20241022", "AnthropicClient",
                    [model |-> "claude-3-5-haiku-20241022", temperature |-> "0.7",
                     max_tokens |-> "8000"]),
      RegistryEntry("anthropic/thinking/claude-opus-4-20250514", "AnthropicClient",
                    [model |-> "thinking/claude-opus-4-20250514", temperature |-> "1",
                     max_tokens |-> "31000",
                     extra_body |-> "thinking: {type: enabled, budget_tokens: 10000}"]),
      RegistryEntry("anthropic/thinking/claude-sonnet-4-20250514", "AnthropicClient",
                    [model |-> "thinking/claude-sonnet-4-20250514", temperature |-> "1",
                     max_tokens |-> "32000",
                     extra_body |-> "thinking: {type: enabled, budget_tokens: 10000}"]),
      RegistryEntry("anthropic/thinking/claude-opus-4-1-20250805", "AnthropicClient",
                    [model |-> "thinking/claude-opus-4-1-20250805", temperature |-> "1",
                     max_tokens |-> "32000",
                     extra_body |-> "thinking: {type: enabled, budget_tokens: 10000}"]),
      RegistryEntry("anthropic/thinking/claude-3-7-sonnet-20250219", "AnthropicClient",
                    [model |-> "thinking/claude-3-7-sonnet-20250219", temperature |-> "1",
                     max_tokens |-> "32000",
                     extra_body |-> "thinking: {type: enabled, budget_tokens: 10000}"]),
      RegistryEntry("openai/gpt-4o", "OpenAIClient",
                    [model |-> "gpt-4o", temperature |-> "0.7", max_tokens |-> "4096"]),
      RegistryEntry("openai/gpt-4o-mini", "OpenAIClient",
                    [model |-> "gpt-4o-mini", temperature |-> "0.7", max_tokens |-> "4096"]),
      RegistryEntry("openai/gpt-4-turbo", "OpenAIClient",
                    [model |-> "gpt-4-turbo", temperature |-> "0.7", max_tokens |-> "4096"]),
      RegistryEntry("openai/gpt-3.5-turbo", "OpenAIClient",
                    [model |-> "gpt-3.5-turbo", temperature |-> "0.7", max_tokens |-> "4096"]),
      RegistryEntry("gemini/gemini-pro", "GeminiClient",
                    [model |-> "gemini-pro", temperature |-> "0.7", max_tokens |-> "4096",
                     top_k |-> "32"]),
      RegistryEntry("gemini/gemini-1.5-pro-latest", "GeminiClient",
                    [model |-> "gemini-1.5-pro-latest", temperature |-> "0.7",
                     max_tokens |-> "8192", top_k |-> "32"]),
      RegistryEntry("gemini/gemini-1.5-flash-latest", "GeminiClient",
                    [model |-> "gemini-1.5-flash-latest", temperature |-> "0.7",
                     max_tokens |-> "8192", top_k |-> "32"])>>

PredefinedIds == {PredefinedRegistry[i].id : i \in 1..Len(PredefinedRegistry)}

\* list_models: the keys of the registry, in insertion order
list_models(reg) == [i \in 1..Len(reg) |-> reg[i].id]

\* variant: every id is taken to be in the registry
Known_Always(reg, id) == TRUE

\* line 232: model_id in self._registry
Known(reg, id) == \E i \in 1..Len(reg) : reg[i].id = id

\* what self._registry[model_id] gives for a key that is not there
MissingEntry == RegistryEntry("None", "KeyError", <<>>)

\* line 237: self._registry[model_id]
Entry(reg, id) ==
    IF \E i \in 1..Len(reg) : reg[i].id = id
    THEN reg[CHOOSE i \in 1..Len(reg) : reg[i].id = id]
    ELSE MissingEntry

\* line 253: self._registry[model_id] = (client_class, config); a key that is
\* already there keeps its place in the order
Registered(reg, id, cls, config) ==
    IF \E i \in 1..Len(reg) : reg[i].id = id
    THEN [i \in 1..Len(reg) |->
             IF reg[i].id = id THEN RegistryEntry(id, cls, config) ELSE reg[i]]
    ELSE Append(reg, RegistryEntry(id, cls, config))

\* variant: the base config wins over the additional config
Merge_BaseWins(base, extra) ==
    [k \in DOMAIN base \cup DOMAIN extra |-> IF k \in DOMAIN base THEN base[k] ELSE extra[k]]

\* {**base_config, **additional_config}
Merge(base, extra) ==
    [k \in DOMAIN base \cup DOMAIN extra |-> IF k \in DOMAIN extra THEN extra[k] ELSE base[k]]

\* dict.setdefault
SetDefault(config, k, v) ==
    IF k \in DOMAIN config THEN config
    ELSE [j \in DOMAIN config \cup {k} |-> IF j = k THEN v ELSE config[j]]

\* dict.get with a default
Get(config, k, default) == IF k \in DOMAIN config THEN config[k] ELSE default

\* dict.pop(k, None): the dict without the key
Pop(config, k) == [j \in DOMAIN config \ {k} |-> config[j]]

\* the items of the dict under the keys given
Only(config, keys) == [j \in DOMAIN config \cap keys |-> config[j]]

\* not value, for the values a config holds
Falsy(v) == v \in {"None", ""}

NoClient ==
    [cls |-> "None", config |-> <<>>, model |-> "None", base_url |-> "None", timeout |-> 0,
     attrs |-> <<>>]

\* OllamaClient.DEFAULT_TIMEOUT
OllamaDefaultTimeout == 180

\* BaseHttpLLMClient.DEFAULT_TIMEOUT
HttpDefaultTimeout == 300

\* BaseHttpLLMClient.__init__ after the configuration was validated; attrs holds the
\* options a constructor took out of the config and keeps as attributes
HttpClient(cls, config, default_timeout) ==
    [cls |-> cls, config |-> config, model |-> Get(config, "model", "None"),
     base_url |-> Get(config, "base_url", "None"),
     timeout |-> Get(config, "timeout", default_timeout), attrs |-> <<>>]

\* os.environ.get(name, default): the default only for a variable that is not set
EnvironGet(env, name, default) == IF env[name] = "None" THEN default ELSE env[name]

\* _DEFAULT_MODEL of ollama_client.py
OllamaDefaultModel == "llama3"

\* OllamaClient(local_config): the defaults (base_url from Config.OLLAMA_BASE_URL,
\* which is None when the variable is not set; DEFAULT_BASE_URL is never read), the
\* validation (_validate_config: model, then base_url), the instance
NewOllamaClient(local_config, env) ==
    LET c1 == SetDefault(local_config, "base_url", env.OLLAMA_BASE_URL)
        c2 == SetDefault(c1, "model", EnvironGet(env, "OLLAMA_MODEL", OllamaDefaultModel))
        c3 == SetDefault(c2, "timeout", OllamaDefaultTimeout)
    IN  IF Falsy(c3["model"]) \/ Falsy(c3["base_url"])
        THEN [ok |-> FALSE, error |-> "ValueError", instance |-> NoClient]
        ELSE [ok |-> TRUE, error |-> "None",
              instance |-> HttpClient("OllamaClient", c3, OllamaDefaultTimeout)]

\* SambaNovaClient.DEFAULT_BASE_URL
SambaNovaDefaultBaseUrl == "https://api.sambanova.ai/v1"

\* _DEFAULT_MODEL
SambaNovaDefaultModel == "DeepSeek-R1-Distill-Llama-70B"

\* SambaNovaClient(local_config): the defaults, the validation (_validate_config:
\* api_key, then model, then base_url), the instance
NewSambaNovaClient(local_config, env) ==
    LET c1 == SetDefault(local_config, "base_url",
                         EnvironGet(env, "SAMBANOVA_BASE_URL", SambaNovaDefaultBaseUrl))
        c2 == SetDefault(c1, "api_key", env.SAMBANOVA_API_KEY)
        c3 == SetDefault(c2, "model",
                         EnvironGet(env, "SAMBANOVA_MODEL", SambaNovaDefaultModel))
    IN  IF \/ Falsy(c3["api_key"]) \/ c3["api_key"] = "YOUR_API_KEY_HERE"
           \/ Falsy(c3["model"])
           \/ Falsy(c3["base_url"])
        THEN [ok |-> FALSE, error |-> "ValueError", instance |-> NoClient]
        ELSE [ok |-> TRUE, error |-> "None",
              instance |-> HttpClient("SambaNovaClient", c3, HttpDefaultTimeout)]

\* ChutesClient.DEFAULT_BASE_URL
ChutesDefaultBaseUrl == "https://llm.chutes.ai/v1"

\* _DEFAULT_MODEL of chutes_client.py
ChutesDefaultModel == "deepseek-ai/DeepSeek-R1"

\* ChutesClient(local_config): the defaults, the validation (_validate_config:
\* api_token, then model, then base_url), the instance
NewChutesClient(local_config, env) ==
    LET c1 == SetDefault(local_config, "base_url",
                         EnvironGet(env, "CHUTES_BASE_URL", ChutesDefaultBaseUrl))
        c2 == SetDefault(c1, "model", EnvironGet(env, "CHUTES_MODEL", ChutesDefaultModel))
        c3 == SetDefault(c2, "api_token", env.CHUTES_API_KEY)
        c4 == SetDefault(c3, "temperature", "0.7")
        c5 == SetDefault(c4, "context_length", "32000")
    IN  IF Falsy(c5["api_token"]) \/ Falsy(c5["model"]) \/ Falsy(c5["base_url"])
        THEN [ok |-> FALSE, error |-> "ValueError", instance |-> NoClient]
        ELSE [ok |-> TRUE, error |-> "None",
              instance |-> HttpClient("ChutesClient", c5, HttpDefaultTimeout)]

\* NvidiaClient.DEFAULT_BASE_URL
NvidiaDefaultBaseUrl == "https://integrate.api.nvidia.com/v1"

\* _DEFAULT_MODEL of nvidia_client.py
NvidiaDefaultModel == "meta/llama-4-maverick-17b-128e-instruct"

\* NvidiaClient.DEFAULT_TIMEOUT
NvidiaDefaultTimeout == 120

\* NvidiaClient(local_config): the defaults, the validation (_validate_config:
\* api_token, then model, then base_url), the instance
NewNvidiaClient(local_config, env) ==
    LET c1 == SetDefault(local_config, "base_url",
                         EnvironGet(env, "NVIDIA_BASE_URL", NvidiaDefaultBaseUrl))
        c2 == SetDefault(c1, "model", EnvironGet(env, "NVIDIA_MODEL", NvidiaDefaultModel))
        c3 == SetDefault(c2, "api_token", env.NVIDIA_API_KEY)
        c4 == SetDefault(c3, "timeout", NvidiaDefaultTimeout)
        c5 == SetDefault(c4, "temperature", "0.7")
        c6 == SetDefault(c5, "max_tokens", "512")
        c7 == SetDefault(c6, "top_p", "1.0")
        c8 == SetDefault(c7, "frequency_penalty", "0.0")
        c9 == SetDefault(c8, "presence_penalty", "0.0")
    IN  IF Falsy(c9["api_token"]) \/ Falsy(c9["model"]) \/ Falsy(c9["base_url"])
        THEN [ok |-> FALSE, error |-> "ValueError", instance |-> NoClient]
        ELSE [ok |-> TRUE, error |-> "None",
              instance |-> HttpClient("NvidiaClient", c9, NvidiaDefaultTimeout)]

\* OpenRouterClient.DEFAULT_BASE_URL
OpenRouterDefaultBaseUrl == "https://openrouter.ai/api/v1"

\* _DEFAULT_MODEL of openrouter_client.py
OpenRouterDefaultModel == "anthropic/claude-3.5-sonnet"

\* OpenRouterClient(local_config): the defaults, the validation (_validate_config:
\* api_key, which the placeholder does not count as, then model, then base_url), the
\* instance
NewOpenRouterClient(local_config, env) ==
    LET c1 == SetDefault(local_config, "base_url",
                         EnvironGet(env, "OPENROUTER_BASE_URL", OpenRouterDefaultBaseUrl))
        c2 == SetDefault(c1, "api_key", env.OPENROUTER_API_KEY)
        c3 == SetDefault(c2, "model",
                         EnvironGet(env, "OPENROUTER_MODEL", OpenRouterDefaultModel))
    IN  IF \/ Falsy(c3["api_key"]) \/ c3["api_key"] = "YOUR_API_KEY_HERE"
           \/ Falsy(c3["model"])
           \/ Falsy(c3["base_url"])
        THEN [ok |-> FALSE, error |-> "ValueError", instance |-> NoClient]
        ELSE [ok |-> TRUE, error |-> "None",
              instance |-> HttpClient("OpenRouterClient", c3, HttpDefaultTimeout)]

\* AnthropicClient.DEFAULT_BASE_URL
AnthropicDefaultBaseUrl == "https://api.anthropic.com/v1"

\* _DEFAULT_MODEL of anthropic_client.py
AnthropicDefaultModel == "claude-3-5-sonnet-20241022"

\* AnthropicClient.DEFAULT_TIMEOUT
AnthropicDefaultTimeout == 120

\* AnthropicClient(local_config): the defaults, extra_body taken out of the config
\* (it is kept on the instance, outside its config), the validation
\* (_validate_config: api_token, then model, then base_url), the instance
NewAnthropicClient(local_config, env) ==
    LET c1 == SetDefault(local_config, "base_url",
                         EnvironGet(env, "ANTHROPIC_BASE_URL", AnthropicDefaultBaseUrl))
        c2 == SetDefault(c1, "model",
                         EnvironGet(env, "ANTHROPIC_MODEL", AnthropicDefaultModel))
        c3 == SetDefault(c2, "api_token", env.ANTHROPIC_API_KEY)
        c4 == SetDefault(c3, "timeout", AnthropicDefaultTimeout)
        c5 == SetDefault(c4, "temperature", "0.7")
        c6 == SetDefault(c5, "max_tokens", "4096")
        c7 == Pop(c6, "extra_body")
    IN  IF Falsy(c7["api_token"]) \/ Falsy(c7["model"]) \/ Falsy(c7["base_url"])
        THEN [ok |-> FALSE, error |-> "ValueError", instance |-> NoClient]
        ELSE [ok |-> TRUE, error |-> "None",
              instance |-> [HttpClient("AnthropicClient", c7, AnthropicDefaultTimeout)
                               EXCEPT !.attrs = Only(c6, {"extra_body"})]]

\* OpenAIClient.DEFAULT_BASE_URL
OpenAIDefaultBaseUrl == "https://api.openai.com/v1"

\* _DEFAULT_MODEL of openai_client.py
OpenAIDefaultModel == "gpt-4o"

\* OpenAIClient.DEFAULT_TIMEOUT
OpenAIDefaultTimeout == 360

\* OpenAIClient(local_config): the defaults, response_format taken out of the config,
\* the validation (_validate_config: api_token, then model, then base_url), the
\* instance
NewOpenAIClient(local_config, env) ==
    LET c1 == SetDefault(local_config, "base_url",
                         EnvironGet(env, "OPENAI_BASE_URL", OpenAIDefaultBaseUrl))
        c2 == SetDefault(c1, "model", EnvironGet(env, "OPENAI_MODEL", OpenAIDefaultModel))
        c3 == SetDefault(c2, "api_token", env.OPENAI_API_KEY)
        c4 == SetDefault(c3, "timeout", OpenAIDefaultTimeout)
        c5 == SetDefault(c4, "temperature", "0.7")
        c6 == SetDefault(c5, "max_tokens", "4096")
        c7 == SetDefault(c6, "top_p", "1.0")
        c8 == SetDefault(c7, "frequency_penalty", "0.0")
        c9 == SetDefault(c8, "presence_penalty", "0.0")
        c10 == Pop(c9, "response_format")
    IN  IF Falsy(c10["api_token"]) \/ Falsy(c10["model"]) \/ Falsy(c10["base_url"])
        THEN [ok |-> FALSE, error |-> "ValueError", instance |-> NoClient]
        ELSE [ok |-> TRUE, error |-> "None",
              instance |-> [HttpClient("OpenAIClient", c10, OpenAIDefaultTimeout)
                               EXCEPT !.attrs = Only(c9, {"response_format"})]]

\* GeminiClient(local_config): the third default reads Config.GEMINI_API_KEY, an
\* attribute class Config does not have, so the constructor raises AttributeError
\* with every config and in every environment, before the validation
NewGeminiClient(local_config, env) ==
    [ok |-> FALSE, error |-> "AttributeError", instance |-> NoClient]

\* client_class(local_config = config)
Construct(cls, config, env) ==
    CASE cls = "OllamaClient" -> NewOllamaClient(config, env)
      [] cls = "SambaNovaClient" -> NewSambaNovaClient(config, env)
      [] cls = "ChutesClient" -> NewChutesClient(config, env)
      [] cls = "NvidiaClient" -> NewNvidiaClient(config, env)
      [] cls = "OpenRouterClient" -> NewOpenRouterClient(config, env)
      [] cls = "AnthropicClient" -> NewAnthropicClient(config, env)
      [] cls = "OpenAIClient" -> NewOpenAIClient(config, env)
      [] cls = "GeminiClient" -> NewGeminiClient(config, env)

NoRegCall ==
    [op |-> "none", model_id |-> "None", outcome |-> "none", error |-> "None",
     client |-> NoClient, additional |-> <<>>, listed |-> <<>>, before |-> <<>>]

\* get_client(model_id, **additional_config)
GetClient(model_id, additional) ==
    /\ LET base == [NoRegCall EXCEPT !.op = "get_client", !.model_id = model_id,
                                     !.additional = additional, !.before = registry]
       IN  IF ~Known(registry, model_id)
           THEN reg_call' = [base EXCEPT !.outcome = "raised", !.error = "ValueError"]
           ELSE LET e == Entry(registry, model_id)
                    c == Construct(e.cls, Merge(e.config, additional), environ)
                IN  IF e = MissingEntry
                    THEN reg_call' = [base EXCEPT !.outcome = "raised", !.error = e.cls]
                    ELSE IF c.ok
                    THEN reg_call' = [base EXCEPT !.outcome = "ok", !.client = c.instance]
                    ELSE reg_call' = [base EXCEPT !.outcome = "raised", !.error = c.error]
    /\ reg_overrides' =
           IF /\ additional # <<>>
              /\ Known(registry, model_id)
              /\ Construct(Entry(registry, model_id).cls,
                           Merge(Entry(registry, model_id).config, additional), environ).ok
           THEN reg_overrides \cup {model_id} ELSE reg_overrides
    /\ UNCHANGED <<registry, environ, reg_history>>
    /\ UNCHANGED <<interpreter_vars, pair_vars, client_vars, bench>>

\* register_model(model_id, client_class, config)
RegisterModel(model_id, cls, config) ==
    /\ registry' = Registered(registry, model_id, cls, config)
    /\ reg_history' =
           [k \in DOMAIN reg_history \cup {model_id} |->
               IF k = model_id THEN [cls |-> cls, config |-> config] ELSE reg_history[k]]
    /\ reg_call' = [NoRegCall EXCEPT !.op = "register_model", !.model_id = model_id,
                                     !.outcome = "ok", !.before = registry]
    /\ UNCHANGED <<environ, reg_overrides>>
    /\ UNCHANGED <<interpreter_vars, pair_vars, client_vars, bench>>

\* list_models()
ListModels ==
    /\ reg_call' = [NoRegCall EXCEPT !.op = "list_models", !.outcome = "ok",
                                     !.listed = list_models(registry),
                                     !.before = registry]
    /\ UNCHANGED <<registry, environ, reg_history, reg_overrides>>
    /\ UNCHANGED <<interpreter_vars, pair_vars, client_vars, bench>>

(***************************************************************************)
(* BaseHttpLLMClient._make_http_request: one POST per turn of its loop.    *)
(* A response is known by its kind: "ok" has status 200 and a JSON body,   *)
(* "bad_json" has status 200 and a body that is not JSON, "http_error" has *)
(* an error status other than 429, "too_many" has status 429, and          *)
(* "timeout" is a request that got no response in time.                    *)
(***************************************************************************)
MaxRetries == 2

ResponseKinds == {"ok", "bad_json", "http_error", "too_many", "timeout"}

\* requests.post or raise_for_status raises a RequestException (Timeout and HTTPError
\* are RequestExceptions)
IsRequestException(kind) == kind \in {"http_error", "too_many", "timeout"}

FirstDelay == 1

ExtraRetries == 4

BackoffDelay == 20

DelayFactor == 3

\* time.sleep(10 + 30*random.random())
BackoffBase == 10

BackoffSpread == 30

NoHttpCall ==
    [pc |-> "idle", num_retries |-> 0, current_max_retries |-> 0, retry_count |-> 0,
     delay |-> FirstDelay, got_too_many_requests |-> FALSE, responses |-> <<>>,
     slept |-> <<>>, grants |-> 0, result |-> 0, error |-> "None"]

\* variant: every 429 grants the extra retries
GrantsExtra_Every(kind, got_too_many_requests) == kind = "too_many"

\* isinstance(e, HTTPError) and e.response.status_code == 429 and not got_too_many_requests
GrantsExtra(kind, got_too_many_requests) == kind = "too_many" /\ ~got_too_many_requests

\* variant: one more request is sent before giving up
GaveUp_Late(retry_count, current_max_retries) == retry_count > current_max_retries + 1

\* retry_count > current_max_retries
GaveUp(retry_count, current_max_retries) == retry_count > current_max_retries

\* the states random.seed(datetime.now().timestamp()) followed by random.random() can
\* leave the generator in
ClockSeeded == {RngStep(SeedState(t)) : t \in 0..MaxClock}

\* a call of time.sleep: the line of the call and the seconds, as a fraction.
\* random.random() is the state it leaves the generator in, over RngMod
BackoffSleep(s) ==
    [line |-> 103, num |-> BackoffBase * RngMod + BackoffSpread * s, den |-> RngMod]

DelaySleep(delay) == [line |-> 131, num |-> delay, den |-> 1]

\* the call of _make_http_request, up to the POST of the first turn of the loop; the
\* locals of the caller are the caller's part
MakeHttpRequest(n) ==
    /\ http.pc = "idle"
    /\ http' = [NoHttpCall EXCEPT !.pc = "loop", !.num_retries = n,
                                  !.current_max_retries = n]
    /\ UNCHANGED <<interpreter_vars, pair_vars, registry_vars>>

\* lines 106-131 for the call h: retry_count += 1, then the RequestException of a call
\* that is out of retries, or the call of time.sleep(delay)
Retried(h) ==
    LET counted == [h EXCEPT !.retry_count = @ + 1]
    IN  IF GaveUp(counted.retry_count, counted.current_max_retries)
        THEN [counted EXCEPT !.pc = "raised", !.error = "RequestException"]
        ELSE [counted EXCEPT !.pc = "sleep", !.slept = Append(@, DelaySleep(h.delay))]

\* requests.post of line 69 has its response, of the given kind: the return, the
\* ValueError, or the except block up to its first call of time.sleep, which is the
\* one of line 103 for the first 429, after random.seed and random.random
HttpPost(kind) ==
    /\ http.pc = "loop"
    /\ LET sent == [http EXCEPT !.responses = Append(@, kind)]
       IN  IF kind = "ok"
           THEN /\ http' = [sent EXCEPT !.pc = "returned", !.result = Len(sent.responses)]
                /\ rng' = rng
           ELSE IF ~IsRequestException(kind)
           THEN /\ http' = [sent EXCEPT !.pc = "raised", !.error = "ValueError"]
                /\ rng' = rng
           ELSE IF GrantsExtra(kind, http.got_too_many_requests)
           THEN /\ rng' \in ClockSeeded
                /\ http' = [sent EXCEPT !.pc = "backoff", !.got_too_many_requests = TRUE,
                                        !.slept = Append(@, BackoffSleep(rng'))]
           ELSE /\ http' = Retried(sent)
                /\ rng' = rng
    /\ UNCHANGED <<frame_vars, keyword_file, reserved, kw_call, installs, symbols,
                   name_value, p_disable_warnings, out_h, in_h>>
    /\ UNCHANGED <<pair_vars, registry_vars, bench>>

\* time.sleep of line 103 is over: lines 104-131, the extra retries and the delay of
\* the back-off, up to the call of time.sleep(delay)
HttpBackoff ==
    /\ http.pc = "backoff"
    /\ http' = Retried([http EXCEPT !.current_max_retries = @ + ExtraRetries,
                                    !.grants = @ + 1,
                                    !.delay = BackoffDelay])
    /\ UNCHANGED <<interpreter_vars, pair_vars, registry_vars, bench>>

\* time.sleep of line 131 is over: delay *= 3, and the next turn of the loop
HttpSleep ==
    /\ http.pc = "sleep"
    /\ http' = [http EXCEPT !.pc = "loop", !.delay = @ * DelayFactor]
    /\ UNCHANGED <<interpreter_vars, pair_vars, registry_vars, bench>>

(***************************************************************************)
(* ChutesClient.send_chat: one call of _make_http_request per turn of its  *)
(* loop, whose steps are the HTTP client's.  What a turn gets is known by  *)
(* its kind: "content" is a JSON with choices[0].message.content,          *)
(* "no_choices" one without the key choices, "empty_choices" one whose     *)
(* choices list is empty, "null_choices" one whose choices is null,        *)
(* "not_dict" one that is no object (null, or a list); "request_exception" *)
(* and "bad_json" are the two exceptions of _make_http_request.            *)
(***************************************************************************)
MAX_PARSING_RETRIES == 3

\* the largest num_retries a call of send_chat is given
MaxChatRetries == 0

Contents == {"text", "program"}

ChatOutcomes ==
    [kind : {"content"}, content : Contents]
        \cup [kind : {"no_choices", "empty_choices", "null_choices", "not_dict",
                      "request_exception", "bad_json"},
              content : {"None"}]

\* the JSON documents _make_http_request returns
ChatShapes == {o \in ChatOutcomes : o.kind \notin {"request_exception", "bad_json"}}

\* what the call of _make_http_request that has ended, h, gives the turn: its exception,
\* or the JSON of its last response, of shape o
TurnOutcome(h, o) ==
    IF h.pc = "raised"
    THEN [kind |-> IF h.error = "RequestException" THEN "request_exception"
                   ELSE "bad_json",
          content |-> "None"]
    ELSE o

\* the exception of the try block of one turn, "None" when it returns
TurnException(o) ==
    CASE o.kind = "content" -> "None"
      [] o.kind = "no_choices" -> "KeyError"
      [] o.kind = "empty_choices" -> "IndexError"
      [] o.kind = "null_choices" -> "TypeError"
      [] o.kind = "not_dict" -> "TypeError"
      [] o.kind = "request_exception" -> "RequestException"
      [] o.kind = "bad_json" -> "ValueError"

\* except (KeyError, IndexError)
IsParsingError(cls) == cls \in {"KeyError", "IndexError"}

\* variant: a parsing error on the last attempt is retried too
KeepsTrying_OneMore(attempt) == attempt <= MAX_PARSING_RETRIES

\* if attempt < MAX_PARSING_RETRIES: ... continue
KeepsTrying(attempt) == attempt < MAX_PARSING_RETRIES

NoChatError == [cls |-> "None", code |-> "None"]

NoChat ==
    [pc |-> "idle", num_retries |-> 0, attempt |-> 0, requests |-> 0, outcomes |-> <<>>,
     result |-> "None", error |-> NoChatError]

\* the call of send_chat, up to the loop; the locals of the caller are the caller's
\* part
SendChat(num_retries) ==
    /\ chat.pc = "idle"
    /\ chat' = [NoChat EXCEPT !.pc = "loop", !.num_retries = num_retries]
    /\ UNCHANGED <<interpreter_vars, pair_vars, registry_vars, http>>

\* for attempt in range(MAX_PARSING_RETRIES + 1): the call of _make_http_request of
\* the turn, or the statement after the loop when the range is used up
ChatTurn ==
    /\ chat.pc = "loop"
    /\ IF chat.attempt > MAX_PARSING_RETRIES
       THEN /\ chat' = [chat EXCEPT !.pc = "raised",
                                    !.error = [cls |-> "RuntimeError", code |-> "None"]]
            /\ UNCHANGED <<interpreter_vars, pair_vars, registry_vars, http, bench>>
       ELSE /\ MakeHttpRequest(chat.num_retries)
            /\ chat' = [chat EXCEPT !.pc = "request", !.requests = @ + 1]
            /\ UNCHANGED bench

\* _make_http_request has ended: the extraction from its JSON, of shape o, and the
\* except blocks, up to the return, the raise or the call of time.sleep(1)
ChatAttempt(o) ==
    /\ chat.pc = "request"
    /\ http.pc \in {"returned", "raised"}
    /\ http' = NoHttpCall
    /\ LET got == [chat EXCEPT !.outcomes = Append(@, TurnOutcome(http, o))]
           cls == TurnException(TurnOutcome(http, o))
       IN  IF cls = "None"
           THEN chat' = [got EXCEPT !.pc = "returned", !.result = o.content]
           ELSE IF IsParsingError(cls)
           THEN IF KeepsTrying(chat.attempt)
                THEN chat' = [got EXCEPT !.pc = "pause"]
                ELSE chat' = [got EXCEPT !.pc = "raised",
                                  !.error = [cls |-> "ValueError", code |-> "ECC001"]]
           ELSE chat' = [got EXCEPT !.pc = "raised",
                                    !.error = [cls |-> cls, code |-> "None"]]
    /\ UNCHANGED <<interpreter_vars, pair_vars, registry_vars, bench>>

\* time.sleep(1) is over: continue, the next value of attempt
ChatPause ==
    /\ chat.pc = "pause"
    /\ chat' = [chat EXCEPT !.pc = "loop", !.attempt = @ + 1]
    /\ UNCHANGED <<interpreter_vars, pair_vars, registry_vars, http, bench>>

\* the caller has the result of send_chat
ChatDone ==
    /\ chat.pc \in {"returned", "raised"}
    /\ chat' = NoChat
    /\ UNCHANGED <<interpreter_vars, pair_vars, registry_vars, http, bench>>

(***************************************************************************)
(* The test functions of the benchmark, which pytest calls one after the   *)
(* other in one process: test_execute_generated_multi_shot with its loop   *)
(* over the shots, test_generated_program_with_mamba_execution with one    *)
(* prompt and one run, and test_conversation_history with two chats and no *)
(* run.  Each call a function makes is one step: the two calls of          *)
(* reset_mamba_state, apply_random_keywords, execute (whose steps are the  *)
(* interpreter's), and the checks of the output log; the steps of          *)
(* send_chat and send_prompt are the client's: OllamaClient sends a chat   *)
(* with one call of _make_http_request, ChutesClient with its loop of      *)
(* parsing retries, and each POST and each sleep is a step of the HTTP     *)
(* client.  The content of a reply is known by its kind: "not_string" (a   *)
(* content that is not a string), "empty", "no_code" (no code block, or an *)
(* empty one), or "code" with the program of its last code block and the   *)
(* keywords the program is written with.  A JSON document is known by its  *)
(* kind: "content" holds a content where the client reads it, "no_key" is  *)
(* an object without the key the client reads, "null_inner" an object      *)
(* whose key holds null, "not_dict" is no object (null, or a list).        *)
(***************************************************************************)
MaxShots == 4

\* @pytest.mark.parametrize("num_shots", [1, 2, 4, 8])
ShotCounts == {1, 2, 4, 8}

LLM_IDENTIFIERS ==
    {"ollama/phi4:14b-q4_K_M", "ollama/deepseek-r1:14b", "ollama/qwen3:14b",
     "ollama/qwen2.5:0.5b", "ollama/glm4:9b",
     "chutes/deepseek-ai/DeepSeek-V3-0324", "chutes/deepseek-ai/DeepSeek-R1",
     "chutes/Qwen/Qwen3-235B-A22B", "chutes/Qwen/Qwen3-30B-A3B", "chutes/Qwen/Qwen3-14B",
     "chutes/THUDM/GLM-4-32B-0414",
     "chutes/chutesai/Llama-4-Maverick-17B-128E-Instruct-FP8",
     "chutes/chutesai/Llama-4-Scout-17B-16E-Instruct"}

\* the ids whose parameter carries pytest.mark.skip
SKIP_LLMS ==
    {"chutes/chutesai/Llama-4-Maverick-17B-128E-Instruct-FP8",
     "chutes/chutesai/Llama-4-Scout-17B-16E-Instruct"}

BenchPrograms ==
    {<<"say">>, <<"div">>, InputExample, <<"ask", "ask">>, JunkProgram}

BenchReplies ==
    [kind : {"not_string", "empty", "no_code"}, program : {<<>>}, written : {"None"}]
        \cup [kind : {"code"}, program : BenchPrograms, written : {"remapped"}]
        \cup [kind : {"code"}, program : {<<"say">>}, written : {"original"}]

NoReply == [kind |-> "None", program |-> <<>>, written |-> "None"]

NoDoc == [kind |-> "None", content |-> NoReply]

\* the JSON documents an Ollama server sends with status 200
OllamaDocs ==
    [kind : {"content"}, content : BenchReplies]
        \cup [kind : {"no_key", "null_inner", "not_dict"}, content : {NoReply}]

\* the JSON documents a Chutes server sends with status 200
ChutesDocs ==
    [kind : {"content"}, content : BenchReplies]
        \cup [kind : {"no_choices", "not_dict"}, content : {NoReply}]

\* OllamaClient._extract_chat_response: the exception it ends with, "None" when it
\* returns.  A KeyError or TypeError is caught and becomes a ValueError whose message
\* is built with response_data.keys(), which a null or a list does not have
ExtractChatResponse(doc) ==
    CASE doc.kind = "content" -> "None"
      [] doc.kind = "no_key" -> "ValueError"
      [] doc.kind = "null_inner" -> "ValueError"
      [] doc.kind = "not_dict" -> "AttributeError"

\* OllamaClient._extract_generate_response: response_data.get("response"), which a null
\* or a list does not have, and the ValueError for a content that is not a string
ExtractGenerateResponse(doc) ==
    CASE doc.kind = "content" ->
             IF doc.content.kind = "not_string" THEN "ValueError" ELSE "None"
      [] doc.kind = "no_key" -> "ValueError"
      [] doc.kind = "null_inner" -> "ValueError"
      [] doc.kind = "not_dict" -> "AttributeError"

\* the extraction of ChutesClient.send_prompt: a KeyError or IndexError becomes a
\* ValueError, a TypeError is not caught
ChutesPromptException(doc) ==
    CASE doc.kind = "content" -> "None"
      [] doc.kind = "no_choices" -> "ValueError"
      [] doc.kind = "not_dict" -> "TypeError"

\* except (NotImplementedError, AttributeError): the fall back to send_prompt
FallsBack(cls) == cls \in {"NotImplementedError", "AttributeError"}

\* a row of the problem file: whether it has input values, and the expected output
BenchCases ==
    {[has_input |-> FALSE, expected |-> <<"Hello World">>],
     [has_input |-> TRUE, expected |-> <<"Hello, ", "Test User", "!">>]}

\* the test functions
MultiShot == "test_execute_generated_multi_shot"

SingleShot == "test_generated_program_with_mamba_execution"

Conversation == "test_conversation_history"

NoBench ==
    [test |-> "None", pc |-> "idle", next |-> "idle", client |-> "None", num_shots |-> 0,
     shot |-> 0,
     requests |-> 0, prompts |-> 0, conversation_history |-> <<>>,
     test_case |-> [has_input |-> FALSE, expected |-> <<>>],
     mamba_execution_seed |-> NoSeed, reply |-> NoReply, log |-> <<>>, verdict |-> "None"]

\* variant: the last shot is taken for one more
IsLastShot_OneMore(shot, num_shots) == shot = num_shots

\* if shot == num_shots - 1:  # Last attempt
IsLastShot(shot, num_shots) == shot = num_shots - 1

\* the closure mock_input_handler of a shot: the input values of the test case (one
\* value, or none) and whether the shot is the last (shot < num_shots - 1 fails)
mock_input_handler(has_input, last) ==
    IF has_input THEN (IF last THEN "one_value_last" ELSE "one_value")
    ELSE (IF last THEN "exhausted_last" ELSE "exhausted")

\* variant: the call asks execute to re-raise
HarnessArgs_Strict(program, vocabulary, has_input, last, seed) ==
    [source |-> program, show_ast |-> FALSE, disable_warnings |-> FALSE,
     random_seed |-> seed, random_seed_was_set |-> TRUE, output_handler |-> "collect",
     input_handler |-> mock_input_handler(has_input, last),
     max_time |-> NoTimeLimit, vocabulary |-> vocabulary]

\* the arguments of mamba_execute: the handlers of the shot, disable_warnings=True and
\* the seed
HarnessArgs(program, vocabulary, has_input, last, seed) ==
    [source |-> program, show_ast |-> FALSE, disable_warnings |-> TRUE,
     random_seed |-> seed, random_seed_was_set |-> TRUE, output_handler |-> "collect",
     input_handler |-> mock_input_handler(has_input, last),
     max_time |-> NoTimeLimit, vocabulary |-> vocabulary]

\* [msg for stream, msg in output_log if stream == ...]
RECURSIVE StreamMessages(_, _)
StreamMessages(output_log, stream) ==
    IF output_log = <<>> THEN <<>>
    ELSE (IF Head(output_log).stream = stream THEN <<Head(output_log).message>> ELSE <<>>)
             \o StreamMessages(Tail(output_log), stream)

\* "".join(messages)
RECURSIVE Join(_)
Join(messages) ==
    IF messages = <<>> THEN <<>> ELSE Head(messages) \o Join(Tail(messages))

\* the branch of the loop body that handles the outcome of mamba_execute
ShotBranch(raised_cls, output_log, expected) ==
    IF raised_cls # "None" THEN "exception"
    ELSE IF StreamMessages(output_log, "stderr") # <<>> THEN "stderr"
    ELSE IF Join(StreamMessages(output_log, "stdout")) = expected THEN "passed"
    ELSE "wrong"

\* the error code of the failure of the last shot
ErrorCode(branch) ==
    CASE branch = "no_code" -> "E003"
      [] branch = "exception" -> "E004"
      [] branch = "stderr" -> "E005"
      [] branch = "wrong" -> "E006"

\* the entry of the history for a shot: the branch taken and what the shot produced
ShotEntry(branch, fault_cls, output_log, expected) ==
    [branch |-> branch, fault |-> fault_cls,
     stderr |-> Len(StreamMessages(output_log, "stderr")),
     stdout_ok |-> Join(StreamMessages(output_log, "stdout")) = expected]

LLM_PARAMS == [temperature |-> "0.1", top_p |-> "0.1"]

\* client.send_chat(conversation_history, num_retries=5, **LLM_PARAMS)
HarnessRetries == 5

\* LLMRegistry().get_client(model_id, **additional_config) in the environment env
NewRegistryClient(model_id, additional_config, env) ==
    IF ~Known(PredefinedRegistry, model_id)
    THEN [ok |-> FALSE, error |-> "ValueError", instance |-> NoClient]
    ELSE LET e == Entry(PredefinedRegistry, model_id)
         IN  Construct(e.cls, Merge(e.config, additional_config), env)

\* how a test function ends: skipped, expected failure, failed assertion or
\* pytest.fail, return, or an exception nothing catches
BenchEnded == {"skipped", "xfail", "failed", "returned", "error"}

\* the test function has ended: pytest has its outcome and the locals of the function
\* are gone; the process goes on with the interpreter and the generator as the
\* function left them
BenchEnd ==
    /\ bench.pc \in BenchEnded
    /\ bench' = NoBench
    /\ UNCHANGED <<interpreter_vars, ext_vars>>

\* pytest calls a test function when the one before has ended
NoTestRunning == bench.pc = "idle" /\ pc = "idle"

\* the call of the test function, up to the loop: the skip mark of the parameter,
\* get_client, whose ValueError is an xfail, the prompt files, whose absence is a
\* failure, and the conversation history
BenchStart(num_shots, test_case, seed, llm_identifier, prompt_files_exist) ==
    /\ NoTestRunning
    /\ LET called == [NoBench EXCEPT !.test = MultiShot, !.num_shots = num_shots,
                                     !.test_case = test_case,
                                     !.mamba_execution_seed = seed]
           client == NewRegistryClient(llm_identifier, LLM_PARAMS, environ)
       IN  IF llm_identifier \in SKIP_LLMS
           THEN bench' = [NoBench EXCEPT !.test = MultiShot, !.pc = "skipped"]
           ELSE IF ~client.ok
           THEN bench' = [called EXCEPT !.pc = "xfail"]
           ELSE IF ~prompt_files_exist
           THEN bench' = [called EXCEPT !.pc = "failed", !.verdict = "setup",
                                        !.client = client.instance.cls]
           ELSE bench' = [called EXCEPT !.pc = "send", !.client = client.instance.cls,
                                        !.conversation_history = <<"system", "user">>]
    /\ UNCHANGED <<interpreter_vars, ext_vars>>

\* the head of the loop and the call of client.send_chat(conversation_history,
\* num_retries=5): for ChutesClient up to its loop, for OllamaClient up to the POST of
\* its _make_http_request; conversation_history, shot and the verdict wait for the reply
BenchSend ==
    /\ bench.pc = "send"
    /\ bench.test = MultiShot
    /\ IF bench.shot >= bench.num_shots
       THEN \* range(num_shots) is used up: the function ends
            /\ bench' = [bench EXCEPT !.pc = "returned"]
            /\ UNCHANGED <<interpreter_vars, ext_vars>>
       ELSE /\ bench' = [bench EXCEPT !.pc = "chat", !.requests = @ + 1]
            /\ IF bench.client = "ChutesClient"
               THEN SendChat(HarnessRetries)
               ELSE MakeHttpRequest(HarnessRetries) /\ UNCHANGED chat

\* the body of the loop after llm_response_text is assigned: the assistant message and
\* the extraction of the program from the code blocks of the reply
Answered(b, reply) ==
    LET sent == [b EXCEPT !.reply = reply]
        answered == [sent EXCEPT !.conversation_history = Append(@, "assistant")]
        entry == ShotEntry("no_code", "None", <<>>, b.test_case.expected)
    IN  CASE reply.kind = "not_string" ->
                 [answered EXCEPT !.pc = "failed", !.verdict = "E001"]
          [] reply.kind = "empty" ->
                 [answered EXCEPT !.pc = "failed", !.verdict = "E002"]
          [] reply.kind = "no_code" ->
                 IF IsLastShot(b.shot, b.num_shots)
                 THEN [answered EXCEPT !.pc = "failed", !.verdict = ErrorCode("no_code"),
                                       !.log = Append(@, entry)]
                 ELSE [answered EXCEPT !.pc = "send",
                                       !.conversation_history = Append(@, "user"),
                                       !.log = Append(@, entry),
                                       !.shot = @ + 1]
          [] reply.kind = "code" ->
                 [answered EXCEPT !.pc = "reset"]

\* what the call of send_chat that has ended gives the test: the exception it raised
\* ("None" when it returned) and the content it returned.  ChutesClient has the
\* result of its loop; OllamaClient has the exception of _make_http_request or what
\* _extract_chat_response makes of the JSON document doc
SendChatResult(doc) ==
    IF bench.client = "ChutesClient"
    THEN [raised |-> chat.error.cls,
          content |-> IF chat.pc = "returned" THEN chat.result ELSE NoReply]
    ELSE IF http.pc = "raised"
    THEN [raised |-> http.error, content |-> NoReply]
    ELSE [raised |-> ExtractChatResponse(doc), content |-> doc.content]

\* send_chat has ended: the except clause that falls back to send_prompt, the xfail
\* for any other exception, or the body of the loop on the content
BenchReply(doc) ==
    /\ bench.pc = "chat"
    /\ bench.test = MultiShot
    /\ IF bench.client = "ChutesClient"
       THEN /\ chat.pc \in {"returned", "raised"}
            /\ doc = NoDoc
            /\ chat' = NoChat
            /\ UNCHANGED http
       ELSE /\ http.pc \in {"returned", "raised"}
            /\ doc = NoDoc <=> http.pc = "raised"
            /\ http' = NoHttpCall
            /\ UNCHANGED chat
    /\ LET got == SendChatResult(doc)
       IN  IF FallsBack(got.raised)
           THEN bench' = [bench EXCEPT !.pc = "fallback"]
           ELSE IF got.raised # "None"
           THEN bench' = [bench EXCEPT !.pc = "xfail"]
           ELSE bench' = Answered(bench, got.content)
    /\ UNCHANGED <<interpreter_vars, pair_vars, registry_vars>>

\* client.send_prompt(last_user_message, system_prompt=SYSTEM_PROMPT), up to the POST
\* of its _make_http_request, which has the default num_retries, 0; the multi-shot
\* test and the conversation test fall back to it
BenchSendPrompt ==
    /\ bench.pc = "fallback"
    /\ MakeHttpRequest(0)
    /\ bench' = [bench EXCEPT !.pc = "prompt", !.prompts = @ + 1]
    /\ UNCHANGED chat

\* the exception send_prompt of the client class ends with for the JSON document doc
SendPromptException(cls, doc) ==
    IF cls = "ChutesClient" THEN ChutesPromptException(doc)
    ELSE ExtractGenerateResponse(doc)

\* send_prompt has ended: every exception is an xfail, a content is llm_response_text
BenchPromptReply(doc) ==
    /\ bench.pc = "prompt"
    /\ bench.test = MultiShot
    /\ http.pc \in {"returned", "raised"}
    /\ doc = NoDoc <=> http.pc = "raised"
    /\ http' = NoHttpCall
    /\ IF http.pc = "raised" \/ SendPromptException(bench.client, doc) # "None"
       THEN bench' = [bench EXCEPT !.pc = "xfail"]
       ELSE bench' = Answered(bench, doc.content)
    /\ UNCHANGED <<interpreter_vars, pair_vars, registry_vars, chat>>

\* reset_mamba_state() before the program runs
BenchReset ==
    /\ bench.pc = "reset"
    /\ ResetMambaState
    /\ bench' = [bench EXCEPT !.pc = "apply"]

\* mamba.apply_random_keywords(mamba_execution_seed); nothing catches its exception
BenchApply ==
    /\ bench.pc = "apply"
    /\ ApplyRandomKeywords(bench.mamba_execution_seed)
    /\ bench' = [bench EXCEPT !.pc = IF kw_call'.outcome = "raised" THEN "error"
                                     ELSE "execute"]

\* whether the input handler of the call names the prompt in the exception it raises:
\* the handler of the multi-shot test does when shot < num_shots - 1 fails, the one
\* of test_generated_program_with_mamba_execution always
NamesPrompt(b) == b.test = SingleShot \/ ~(b.shot < b.num_shots - 1)

\* the call of mamba_execute on the program of the reply
BenchExecute ==
    /\ bench.pc = "execute"
    /\ Enter(HarnessArgs(bench.reply.program,
                         IF bench.reply.written = "original" THEN original_reserved
                         ELSE reserved,
                         bench.test_case.has_input,
                         NamesPrompt(bench),
                         bench.mamba_execution_seed))
    /\ bench' = [bench EXCEPT !.pc = "running"]

\* mamba_execute has ended: the except branch, the stderr check, the stdout check
BenchCheck ==
    /\ bench.pc = "running"
    /\ bench.test = MultiShot
    /\ pc = "returned"
    /\ Return(FALSE)
    /\ LET branch == ShotBranch(raised, events, bench.test_case.expected)
           entry == ShotEntry(branch, fault.cls, events, bench.test_case.expected)
           logged == [bench EXCEPT !.log = Append(@, entry)]
       IN  IF branch = "passed"
           THEN bench' = [logged EXCEPT !.pc = "cleanup", !.next = "returned"]
           ELSE IF IsLastShot(bench.shot, bench.num_shots)
           THEN bench' = [logged EXCEPT !.pc = "failed", !.verdict = ErrorCode(branch)]
           ELSE bench' = [logged EXCEPT !.conversation_history = Append(@, "user"),
                                        !.shot = @ + 1,
                                        !.pc = "cleanup", !.next = "send"]

\* reset_mamba_state() after the run, then the return or the continue
BenchCleanup ==
    /\ bench.pc = "cleanup"
    /\ ResetMambaState
    /\ bench' = [bench EXCEPT !.pc = bench.next, !.next = "idle"]

\* test_generated_program_with_mamba_execution, up to the POST of send_prompt:
\* get_client, whose ValueError is a skip, the prompt files, whose absence is a
\* failure, and client.send_prompt(concatenated_prompt), which has the default
\* num_retries, 0
GeneratedProgramStart(test_case, seed, llm_identifier, prompt_files_exist) ==
    /\ NoTestRunning
    /\ LET called == [NoBench EXCEPT !.test = SingleShot, !.test_case = test_case,
                                     !.mamba_execution_seed = seed]
           client == NewRegistryClient(llm_identifier, LLM_PARAMS, environ)
       IN  IF ~client.ok
           THEN /\ bench' = [called EXCEPT !.pc = IF client.error = "ValueError"
                                                  THEN "skipped" ELSE "error"]
                /\ UNCHANGED <<interpreter_vars, ext_vars>>
           ELSE IF ~prompt_files_exist
           THEN /\ bench' = [called EXCEPT !.pc = "failed", !.verdict = "setup",
                                           !.client = client.instance.cls]
                /\ UNCHANGED <<interpreter_vars, ext_vars>>
           ELSE /\ bench' = [called EXCEPT !.pc = "prompt", !.prompts = 1,
                                           !.client = client.instance.cls]
                /\ MakeHttpRequest(0)
                /\ UNCHANGED chat

\* send_prompt has ended: every exception is raised again as an Exception; then the
\* assertions on the reply (a string, not empty, with a program in a code block)
GeneratedProgramReply(doc) ==
    /\ bench.pc = "prompt"
    /\ bench.test = SingleShot
    /\ http.pc \in {"returned", "raised"}
    /\ doc = NoDoc <=> http.pc = "raised"
    /\ http' = NoHttpCall
    /\ IF http.pc = "raised" \/ SendPromptException(bench.client, doc) # "None"
       THEN bench' = [bench EXCEPT !.pc = "error", !.verdict = "Exception"]
       ELSE LET sent == [bench EXCEPT !.reply = doc.content]
            IN  CASE doc.content.kind = "not_string" ->
                         bench' = [sent EXCEPT !.pc = "failed", !.verdict = "not_string"]
                  [] doc.content.kind = "empty" ->
                         bench' = [sent EXCEPT !.pc = "failed", !.verdict = "empty"]
                  [] doc.content.kind = "no_code" ->
                         bench' = [sent EXCEPT !.pc = "failed", !.verdict = "no_code"]
                  [] doc.content.kind = "code" ->
                         bench' = [sent EXCEPT !.pc = "reset"]
    /\ UNCHANGED <<interpreter_vars, pair_vars, registry_vars, chat>>

\* the call of execute is over and the finally clause of the caller has called
\* reset_mamba_state()
ReturnAndReset ==
    /\ pc = "returned"
    /\ pc' = "idle"
    /\ prev' = <<>>
    /\ call' = NoCall
    /\ events' = <<>>
    /\ console' = <<>>
    /\ prompts' = <<>>
    /\ raised' = "None"
    /\ fault' = NoFault
    /\ rest' = <<>>
    /\ now' = 0
    /\ loop_pos' = "test"
    /\ symbols' = {}
    /\ name_value' = <<>>
    /\ reserved' = original_reserved
    /\ out_h' = "None"
    /\ p_disable_warnings' = FALSE
    /\ UNCHANGED <<keyword_file, rng, in_h, kw_call, installs>>
    /\ UNCHANGED ext_vars

\* mamba_execute has ended in test_generated_program_with_mamba_execution: the except
\* branch, the finally clause with reset_mamba_state(), then the stderr check and the
\* stdout check
GeneratedProgramCheck ==
    /\ bench.pc = "running"
    /\ bench.test = SingleShot
    /\ ReturnAndReset
    /\ LET branch == ShotBranch(raised, events, bench.test_case.expected)
           entry == ShotEntry(branch, fault.cls, events, bench.test_case.expected)
           logged == [bench EXCEPT !.log = Append(@, entry)]
       IN  IF branch = "passed"
           THEN bench' = [logged EXCEPT !.pc = "returned"]
           ELSE bench' = [logged EXCEPT !.pc = "failed", !.verdict = branch]

\* load_problem_definitions()[:1]: the first row of the problem file
FirstCase == [has_input |-> FALSE, expected |-> <<"Hello World">>]

\* test_conversation_history, up to the first POST of the first send_chat: get_client,
\* whose ValueError is a skip, the prompt files, the conversation history and
\* client.send_chat(conversation_history), which has the default num_retries, 0
ConversationStart(llm_identifier, prompt_files_exist) ==
    /\ NoTestRunning
    /\ LET called == [NoBench EXCEPT !.test = Conversation, !.test_case = FirstCase,
                                     !.mamba_execution_seed = 1]
           client == NewRegistryClient(llm_identifier, LLM_PARAMS, environ)
       IN  IF ~client.ok
           THEN /\ bench' = [called EXCEPT !.pc = IF client.error = "ValueError"
                                                  THEN "skipped" ELSE "error"]
                /\ UNCHANGED <<interpreter_vars, ext_vars>>
           ELSE IF ~prompt_files_exist
           THEN /\ bench' = [called EXCEPT !.pc = "failed", !.verdict = "setup",
                                           !.client = client.instance.cls]
                /\ UNCHANGED <<interpreter_vars, ext_vars>>
           ELSE /\ bench' = [called EXCEPT !.pc = "chat", !.requests = 1,
                                           !.client = client.instance.cls,
                                           !.conversation_history = <<"system", "user">>]
                /\ IF client.instance.cls = "ChutesClient"
                   THEN SendChat(0)
                   ELSE MakeHttpRequest(0) /\ UNCHANGED chat

\* client.send_chat(conversation_history, num_retries=2): the request for the
\* explanation
ExplanationRetries == 2

\* the second call of send_chat of test_conversation_history, for ChutesClient up to
\* its loop, for OllamaClient up to the POST of its _make_http_request
ConversationSend ==
    /\ bench.pc = "send"
    /\ bench.test = Conversation
    /\ bench' = [bench EXCEPT !.pc = "chat", !.requests = @ + 1]
    /\ IF bench.client = "ChutesClient"
       THEN SendChat(ExplanationRetries)
       ELSE MakeHttpRequest(ExplanationRetries) /\ UNCHANGED chat

\* what the assertions on the explanation see of a reply: "no_len" has no length (a
\* number, a null), "no_lower" has more than 50 items and no method lower (a list),
\* "short" has 50 characters or items at most, "unrelated" is a longer string that
\* names neither the code nor the solution, "meaningful" one that does
ExplanationTexts == {"no_len", "no_lower", "short", "unrelated", "meaningful"}

\* the texts a reply of the kind can be
TextsOf(kind) ==
    CASE kind = "not_string" -> {"no_len", "no_lower", "short"}
      [] kind = "empty" -> {"short"}
      [] kind \in {"no_code", "code"} -> {"short", "unrelated", "meaningful"}

\* test_conversation_history after a reply was assigned: the assistant message; for
\* the first reply the extraction of the program (re.findall raises TypeError on a
\* content that is no string), the assertion that there is one, and the user message
\* that asks for the explanation; for the second reply the two assertions
ConversationAnswered(b, reply, text) ==
    LET answered == [b EXCEPT !.reply = reply,
                              !.conversation_history = Append(@, "assistant")]
    IN  IF b.shot = 0
        THEN CASE reply.kind = "not_string" ->
                      [answered EXCEPT !.pc = "error", !.verdict = "TypeError"]
               [] reply.kind \in {"empty", "no_code"} ->
                      [answered EXCEPT !.pc = "failed", !.verdict = "no_code"]
               [] reply.kind = "code" ->
                      [answered EXCEPT !.pc = "send", !.shot = 1,
                                       !.conversation_history = Append(@, "user")]
        ELSE CASE text = "no_len" ->
                      [answered EXCEPT !.pc = "error", !.verdict = "TypeError"]
               [] text = "no_lower" ->
                      [answered EXCEPT !.pc = "error", !.verdict = "AttributeError"]
               [] text = "short" ->
                      [answered EXCEPT !.pc = "failed", !.verdict = "too_short"]
               [] text = "unrelated" ->
                      [answered EXCEPT !.pc = "failed", !.verdict = "unrelated"]
               [] text = "meaningful" ->
                      [answered EXCEPT !.pc = "returned"]

\* send_chat has ended in test_conversation_history: the except clause that falls
\* back to send_prompt, the skip for any other exception, or the statements after
\* the reply, which is the text for the second request
ConversationReply(doc, text) ==
    /\ bench.pc = "chat"
    /\ bench.test = Conversation
    /\ IF bench.client = "ChutesClient"
       THEN /\ chat.pc \in {"returned", "raised"}
            /\ doc = NoDoc
            /\ chat' = NoChat
            /\ UNCHANGED http
       ELSE /\ http.pc \in {"returned", "raised"}
            /\ doc = NoDoc <=> http.pc = "raised"
            /\ http' = NoHttpCall
            /\ UNCHANGED chat
    /\ LET got == SendChatResult(doc)
       IN  IF FallsBack(got.raised)
           THEN text = "None" /\ bench' = [bench EXCEPT !.pc = "fallback"]
           ELSE IF got.raised # "None"
           THEN text = "None" /\ bench' = [bench EXCEPT !.pc = "skipped"]
           ELSE /\ IF bench.shot = 0 THEN text = "None"
                   ELSE text \in TextsOf(got.content.kind)
                /\ bench' = ConversationAnswered(bench, got.content, text)
    /\ UNCHANGED <<interpreter_vars, pair_vars, registry_vars>>

\* send_prompt has ended in test_conversation_history: every exception is a skip, a
\* content is the reply
ConversationPromptReply(doc, text) ==
    /\ bench.pc = "prompt"
    /\ bench.test = Conversation
    /\ http.pc \in {"returned", "raised"}
    /\ doc = NoDoc <=> http.pc = "raised"
    /\ http' = NoHttpCall
    /\ IF http.pc = "raised" \/ SendPromptException(bench.client, doc) # "None"
       THEN text = "None" /\ bench' = [bench EXCEPT !.pc = "skipped"]
       ELSE /\ IF bench.shot = 0 THEN text = "None"
               ELSE text \in TextsOf(doc.content.kind)
            /\ bench' = ConversationAnswered(bench, doc.content, text)
    /\ UNCHANGED <<interpreter_vars, pair_vars, registry_vars, chat>>

(***************************************************************************)
(* Specifications.                                                         *)
(***************************************************************************)
InterpreterInit(files) ==
    /\ keyword_file \in files
    /\ rng = 0
    /\ reserved = original_reserved
    /\ symbols = {}
    /\ name_value = <<>>
    /\ p_disable_warnings = FALSE
    /\ out_h = "None"
    /\ in_h = "None"
    /\ pc = "idle"
    /\ call = NoCall
    /\ rest = <<>>
    /\ loop_pos = "test"
    /\ fault = NoFault
    /\ events = <<>>
    /\ console = <<>>
    /\ prompts = <<>>
    /\ raised = "None"
    /\ now = 0
    /\ kw_call = NoKwCall
    /\ installs = {}
    /\ prev = <<>>

\* a process with none of the variables the constructors read (GEMINI_BASE_URL and
\* GEMINI_MODEL are left out: GeminiClient raises whatever they hold)
NoEnvironment ==
    [OLLAMA_BASE_URL |-> "None", OLLAMA_MODEL |-> "None", SAMBANOVA_API_KEY |-> "None",
     SAMBANOVA_BASE_URL |-> "None", SAMBANOVA_MODEL |-> "None",
     CHUTES_API_KEY |-> "None", CHUTES_BASE_URL |-> "None", CHUTES_MODEL |-> "None",
     NVIDIA_API_KEY |-> "None", NVIDIA_BASE_URL |-> "None", NVIDIA_MODEL |-> "None",
     OPENROUTER_API_KEY |-> "None", OPENROUTER_BASE_URL |-> "None",
     OPENROUTER_MODEL |-> "None", ANTHROPIC_API_KEY |-> "None",
     ANTHROPIC_BASE_URL |-> "None", ANTHROPIC_MODEL |-> "None",
     OPENAI_API_KEY |-> "None", OPENAI_BASE_URL |-> "None", OPENAI_MODEL |-> "None"]

\* no concurrent calls
PairIdle == threads = [r \in Runs |-> IdleThread] /\ delivered = {}

\* the process has built no registry
RegistryIdle ==
    /\ registry = <<>>
    /\ environ = NoEnvironment
    /\ reg_call = NoRegCall
    /\ reg_history = <<>>
    /\ reg_overrides = {}

\* no request, no chat and no benchmark function is running
ClientIdle == http = NoHttpCall /\ chat = NoChat /\ bench = NoBench

InitWith(files) == InterpreterInit(files) /\ PairIdle /\ RegistryIdle /\ ClientIdle

\* The driver: execute on every program with every pair of handlers, and on the
\* short programs with every time limit and show_ast, and on the two example programs;
\* the tests' reset.
DriverArgs ==
    ExecuteArgs(Programs, {FALSE}, BOOLEAN, {NoSeed}, {FALSE}, OutputHandlers, InputHandlers, {NoTimeLimit})
        \cup ExecuteArgs(ShortPrograms, BOOLEAN, BOOLEAN, {NoSeed}, {FALSE}, OutputHandlers, {"None"}, TimeLimits)
        \cup ExecuteArgs({EmbeddedExample, InputExample}, {FALSE}, {TRUE}, {NoSeed}, {FALSE}, {"collect"}, {"mock"}, {NoTimeLimit})

Execute == \E a \in DriverArgs : Enter(a) /\ UNCHANGED bench

ReturnToCaller == Return(FALSE) /\ UNCHANGED bench

NoKeywordFile == [present |-> FALSE, lines |-> <<>>]

Init == InitWith({NoKeywordFile})

\* the tests reset the interpreter between calls
Reset == ResetMambaState /\ UNCHANGED bench

Next == Execute \/ EvalNode \/ Finish \/ ReturnToCaller \/ Reset

Spec == Init /\ [][Next]_vars

\* The driver, scheduled: a call of execute that can take a step takes it.
SpecLive == Init /\ [][Next]_vars /\ WF_vars(EvalNode) /\ WF_vars(Finish)

\* Re-running: calls of execute as the tests of the interpreter make them, with a
\* collecting output handler, disable_warnings=True and no input handler, each
\* compared with the run before.
RerunArgs ==
    ExecuteArgs(Programs, {FALSE}, {TRUE}, {NoSeed}, {FALSE}, {"collect"}, {"None"}, {NoTimeLimit})

ExecuteAgain == \E a \in RerunArgs : Enter(a) /\ UNCHANGED bench

ReturnTracked == Return(TRUE) /\ UNCHANGED bench

NextRerun == ExecuteAgain \/ EvalNode \/ Finish \/ ReturnTracked \/ Reset

SpecRerun == Init /\ [][NextRerun]_vars

\* The keyword engine: apply_random_keywords on every keyword file, between other
\* uses of the generator and calls of execute with and without a seed.
\* the call of the command line: no handlers; --show-ast, --enable-warnings and
\* --max-execution-time given or not; random_seed_was_set = args.random_seed is not None
MainArgs ==
    {a \in ExecuteArgs({<<"say">>}, BOOLEAN, BOOLEAN, {NoSeed, 1}, BOOLEAN,
                       {"None"}, {"None"}, TimeLimits) :
        a.random_seed_was_set <=> a.random_seed # NoSeed}

\* the calls of an embedding program, with an output handler and disable_warnings=True
\* as the tests make them, with every seed and seed flag the signature allows
EmbeddedArgs ==
    ExecuteArgs({<<"say">>}, {FALSE}, {TRUE}, {NoSeed, 1}, BOOLEAN,
                {"collect"}, {"None"}, {NoTimeLimit})

\* the calls of execute between the calls of the keyword engine: the one of the command
\* line without --show-ast, without a time limit or with one whose deadline cannot be
\* computed, and the ones of an embedding program that sets random_seed_was_set as the
\* command line does
KeywordArgs ==
    {a \in MainArgs : ~a.show_ast /\ (a.max_time = NoTimeLimit \/ DeadlineFails(a.max_time))}
        \cup {a \in EmbeddedArgs : a.random_seed_was_set <=> a.random_seed # NoSeed}

ExecuteSeeded == \E a \in KeywordArgs : Enter(a) /\ UNCHANGED bench

ApplySeed == \E seed \in Seeds : ApplyRandomKeywords(seed) /\ UNCHANGED bench

InitKw == InitWith(KeywordFiles)

NextKw == ApplySeed \/ OtherRandomUse \/ ExecuteSeeded \/ EvalNode \/ Finish \/ ReturnToCaller

SpecKw == InitKw /\ [][NextKw]_vars

\* The keyword file between calls.  Every call of apply_random_keywords opens the file
\* anew, so a call finds what the file holds then: a full catalog, a short one, or no
\* file, whatever an earlier call found.
FileVersions ==
    {NoKeywordFile}
        \cup {[present |-> TRUE, lines |-> ls] :
                 ls \in {<<"ka">>, <<"ko", "ka">>, <<"ka", "ko", "ku">>}}

\* the file is written, replaced or removed while no call is running
ReplaceKeywordFile ==
    /\ pc = "idle"
    /\ keyword_file' \in FileVersions \ {keyword_file}
    /\ UNCHANGED <<rng, reserved, kw_call, installs, symbols, name_value,
                   p_disable_warnings, out_h, in_h, frame_vars>>
    /\ UNCHANGED <<ext_vars, bench>>

InitKwFile == InitWith(FileVersions)

NextKwFile == ApplySeed \/ ReplaceKeywordFile \/ OtherRandomUse

SpecKwFile == InitKwFile /\ [][NextKwFile]_vars

\* Two concurrent calls: each thread calls execute once, on its own program and
\* with its own handlers; the scheduler interleaves their steps.
PairThreads ==
    {[r \in Runs |-> [IdleThread EXCEPT !.pc = "start", !.source = src[r],
                                         !.output_handler = PairOutputHandler(r),
                                         !.input_handler = PairInputHandler(r)]] :
        src \in [Runs -> PairPrograms]}

InitPair ==
    /\ InterpreterInit({NoKeywordFile})
    /\ threads \in PairThreads
    /\ delivered = {}
    /\ RegistryIdle
    /\ ClientIdle

SaveOutput == \E r \in Runs : ThreadSaveOutput(r)

SaveInput == \E r \in Runs : ThreadSaveInput(r)

SetOutput == \E r \in Runs : ThreadSetOutput(r)

SetInput == \E r \in Runs : ThreadSetInput(r)

Setup == \E r \in Runs : ThreadSetup(r)

EvalInThread == \E r \in Runs : ThreadEvalNode(r)

Except == \E r \in Runs : ThreadExcept(r)

RestoreOutput == \E r \in Runs : ThreadRestoreOutput(r)

RestoreInput == \E r \in Runs : ThreadRestoreInput(r)

NextPair ==
    \/ SaveOutput \/ SaveInput \/ SetOutput \/ SetInput \/ Setup
    \/ EvalInThread \/ Except \/ RestoreOutput \/ RestoreInput

SpecPair == InitPair /\ [][NextPair]_vars

\* Remapped programs, as the keyword test runs them: reset_mamba_state, then
\* apply_random_keywords for a seed, then execute with that seed, a collecting output
\* handler and no input handler on a program written either with the keywords of the
\* map the call built or with the original ones, then the finally block.
Vocabularies ==
    {original_reserved} \cup (IF kw_call.outcome = "ok" THEN {kw_call.built} ELSE {})

\* keyword files of distinct words and one that repeats a word
EquivFiles ==
    {[present |-> TRUE, lines |-> ls] :
        ls \in {<<"ka", "ko", "ku">>, <<"ko", "", "ka">>, <<"ka", "ka", "ko">>}}

\* a catalog that holds a word the programs use as a variable
CapturingFile == [present |-> TRUE, lines |-> <<"ka", "name", "ko">>]

EquivPrograms == ShortPrograms \cup {EmbeddedExample, InputExample, <<"ask", "say">>}

WrittenArgs ==
    {[a EXCEPT !.vocabulary = v] :
        a \in ExecuteArgs(EquivPrograms, {FALSE}, {TRUE}, {kw_call.seed}, {TRUE}, {"collect"}, {"None"}, {NoTimeLimit}),
        v \in Vocabularies}

\* the state reset_mamba_state leaves the interpreter in
FreshInterpreter ==
    /\ symbols = {}
    /\ name_value = <<>>
    /\ reserved = original_reserved
    /\ out_h = "None"
    /\ ~p_disable_warnings

\* reset_mamba_state() at the head of the test: the test before has put the original
\* reserved words back
ResetBeforeApply == reserved = original_reserved /\ Reset

\* mamba.apply_random_keywords(test_seed), in the interpreter as the reset left it
ApplyAfterReset == FreshInterpreter /\ ApplySeed

\* the try block of the keyword test: mamba.execute on the program it wrote, while
\* the map that apply_random_keywords built is the installed one
ExecuteWritten ==
    /\ kw_call.outcome = "ok"
    /\ reserved = kw_call.built
    /\ \E a \in WrittenArgs : Enter(a) /\ UNCHANGED bench

\* The finally block of the keyword test.  It is what follows the try in every run,
\* whether execute returned or raised, and nothing else does: the call is over and
\* mamba.lexer.override_reserved_words(original_lexer_original_reserved) has run.
RestoreReservedWords ==
    /\ ReturnFrame(FALSE)
    /\ reserved' = original_reserved
    /\ UNCHANGED bench

NextEquiv ==
    \/ ResetBeforeApply
    \/ ApplyAfterReset
    \/ ExecuteWritten
    \/ EvalNode
    \/ Finish
    \/ RestoreReservedWords

InitEquiv == InitWith(EquivFiles \cup {CapturingFile})

SpecEquiv == InitEquiv /\ [][NextEquiv]_vars

\* The registry: register_model, get_client and list_models in any order, in a
\* process with or without the environment variables the constructors fall back on;
\* the keys of the providers are set together, and so are the empty variables
Environments ==
    {env \in [OLLAMA_BASE_URL : {"None", "http://localhost:11434"},
              OLLAMA_MODEL : {"None", ""},
              SAMBANOVA_API_KEY : {"None", "key"},
              SAMBANOVA_BASE_URL : {"None", ""},
              SAMBANOVA_MODEL : {"None"},
              CHUTES_API_KEY : {"None", "token"},
              CHUTES_BASE_URL : {"None"},
              CHUTES_MODEL : {"None"},
              NVIDIA_API_KEY : {"None", "token"},
              NVIDIA_BASE_URL : {"None"},
              NVIDIA_MODEL : {"None"},
              OPENROUTER_API_KEY : {"None", "key"},
              OPENROUTER_BASE_URL : {"None"},
              OPENROUTER_MODEL : {"None"},
              ANTHROPIC_API_KEY : {"None", "token"},
              ANTHROPIC_BASE_URL : {"None"},
              ANTHROPIC_MODEL : {"None"},
              OPENAI_API_KEY : {"None", "token"},
              OPENAI_BASE_URL : {"None"},
              OPENAI_MODEL : {"None"}] :
        \A k \in {"CHUTES_API_KEY", "NVIDIA_API_KEY", "OPENROUTER_API_KEY",
                  "ANTHROPIC_API_KEY", "OPENAI_API_KEY"} :
            /\ env.SAMBANOVA_API_KEY = "None" <=> env[k] = "None"
            /\ env.SAMBANOVA_BASE_URL = env.OLLAMA_MODEL}

CustomId == "ollama/custom-model"

InvalidId == "invalid/model"

RegisterIds == {CustomId, "ollama/phi4:14b-q4_K_M"}

\* the configs a model is registered with: the one of test_register_custom_model, one
\* that has what every constructor requires, and one without a model
RegisterConfigs ==
    {[model |-> "custom-model"],
     [model |-> "other-model", base_url |-> "http://custom-url:11434", api_key |-> "key",
      api_token |-> "token"],
     [base_url |-> "http://custom-url:11434"]}

\* the classes a model is registered with: the one of test_register_custom_model and
\* two of the classes that need a key
RegisterClasses == {"OllamaClient", "SambaNovaClient", "ChutesClient"}

\* the classes and configs of the calls of register_model
Registrations ==
    {r \in [cls : RegisterClasses, config : RegisterConfigs] :
        "api_key" \in DOMAIN r.config <=> r.cls # "OllamaClient"}

\* the ids get_client is called with: the ones the tests of the registry name and the
\* registered ones
RequestIds == {"ollama/phi4:14b-q4_K_M", "sambanova/DeepSeek-R1", InvalidId} \cup RegisterIds

\* ids get_client is called with without additional config: the second SambaNova model
\* test_registry_initialization names and one model of each other provider
ProviderIds ==
    {"sambanova/Llama-4-Maverick-17B-128E-Instruct", "chutes/deepseek-ai/DeepSeek-R1",
     "nvidia/qwen/qwen3-235b-a22b", "openrouter/openrouter/horizon-alpha",
     "anthropic/thinking/claude-opus-4-20250514", "openai/gpt-4o", "gemini/gemini-pro"}

AdditionalConfigs ==
    {<<>>, [base_url |-> "http://custom-url:11434", timeout |-> 300],
     [base_url |-> "http://other-url:11434"]}

InitRegistry ==
    /\ InterpreterInit({NoKeywordFile})
    /\ PairIdle
    /\ registry = PredefinedRegistry
    /\ environ \in Environments
    /\ reg_call = NoRegCall
    /\ reg_history = <<>>
    /\ reg_overrides = {}
    /\ ClientIdle

Register ==
    \E id \in RegisterIds, r \in Registrations : RegisterModel(id, r.cls, r.config)

Get_client ==
    \/ \E id \in RequestIds, extra \in AdditionalConfigs : GetClient(id, extra)
    \/ \E id \in ProviderIds : GetClient(id, <<>>)

NextRegistry == Register \/ Get_client \/ ListModels

SpecRegistry == InitRegistry /\ [][NextRegistry]_vars

\* The HTTP client: one call of _make_http_request with every number of retries, the
\* server answering each POST with a response of any kind.
Call_make_http_request ==
    \E n \in 0..MaxRetries : MakeHttpRequest(n) /\ UNCHANGED <<chat, bench>>

Post == \E kind \in ResponseKinds : HttpPost(kind) /\ UNCHANGED chat

Backoff == HttpBackoff /\ UNCHANGED chat

Sleep == HttpSleep /\ UNCHANGED chat

NextHttp == Call_make_http_request \/ Post \/ Backoff \/ Sleep

SpecHttp == Init /\ [][NextHttp]_vars

\* every POST is answered or times out (timeout=(self.timeout, self.timeout)) and every
\* sleep ends, so a call in its loop takes its next step
SpecHttpLive ==
    Init /\ [][NextHttp]_vars /\ WF_vars(Post) /\ WF_vars(Backoff) /\ WF_vars(Sleep)

\* The generator and its users in one thread: apply_random_keywords, main's choice of
\* the language name, a request that is answered 429, and execute with and without a
\* seed.
CallWithoutRetries == pc = "idle" /\ MakeHttpRequest(0) /\ UNCHANGED <<chat, bench>>

\* the server answers 429 once at most
PostAnswered ==
    /\ pc = "idle"
    /\ \E kind \in (IF http.got_too_many_requests THEN {"ok"} ELSE {"too_many", "ok"}) :
           HttpPost(kind)
    /\ UNCHANGED chat

SleepOver == pc = "idle" /\ (Backoff \/ Sleep)

\* the calls of execute, with every seed and seed flag
ExecuteFlagged == \E a \in MainArgs \cup EmbeddedArgs : Enter(a) /\ UNCHANGED bench

NextSeeded ==
    \/ ApplySeed
    \/ OtherRandomUse
    \/ CallWithoutRetries
    \/ PostAnswered
    \/ SleepOver
    \/ ExecuteFlagged
    \/ EvalNode
    \/ Finish
    \/ ReturnToCaller

InitSeeded == InitWith(EquivFiles)

SpecSeeded == InitSeeded /\ [][NextSeeded]_vars

\* The chat client: calls of send_chat, the server answering each POST of each turn
\* with a response of any kind and, with status 200, a JSON of any shape.
Attempt == \E o \in ChatShapes : ChatAttempt(o)

Call_send_chat == \E n \in 0..MaxChatRetries : SendChat(n) /\ UNCHANGED bench

NextChat ==
    \/ Call_send_chat
    \/ ChatTurn
    \/ Post
    \/ Backoff
    \/ Sleep
    \/ Attempt
    \/ ChatPause
    \/ ChatDone

SpecChat == Init /\ [][NextChat]_vars

\* The benchmark: its three test functions one after the other, the multi-shot test
\* on every number of shots and test case, the model replying anything, with a keyword
\* file and without one.
BenchFiles == {[present |-> TRUE, lines |-> <<"ka", "ko", "ku">>], NoKeywordFile}

\* the process has the variables the constructors fall back on, or none of them
BenchEnvironments ==
    {env \in Environments :
        /\ env.SAMBANOVA_BASE_URL = "None"
        /\ env.SAMBANOVA_MODEL = "None"
        /\ env.OLLAMA_MODEL = "None"
        /\ env.OLLAMA_BASE_URL = "None" <=> env.SAMBANOVA_API_KEY = "None"}

StartBench ==
    \E num_shots \in {n \in ShotCounts : n <= MaxShots}, test_case \in BenchCases,
       llm_identifier \in LLM_IDENTIFIERS, prompt_files_exist \in BOOLEAN :
        BenchStart(num_shots, test_case, 1, llm_identifier, prompt_files_exist)

StartGeneratedProgram ==
    \E test_case \in BenchCases, llm_identifier \in LLM_IDENTIFIERS,
       prompt_files_exist \in BOOLEAN :
        GeneratedProgramStart(test_case, 1, llm_identifier, prompt_files_exist)

StartConversation ==
    \E llm_identifier \in LLM_IDENTIFIERS, prompt_files_exist \in BOOLEAN :
        ConversationStart(llm_identifier, prompt_files_exist)

\* the server of the benchmark: it answers a POST with a success; the first POST of a
\* call it may also answer with a body that is no JSON and, in the first call of a
\* test function, with 429; a call that got no 429 it may let time out
BenchResponses ==
    {"ok"} \cup (IF http.responses = <<>> THEN {"bad_json"} ELSE {})
           \cup (IF http.responses = <<>> /\ bench.requests + bench.prompts = 1
                 THEN {"too_many"} ELSE {})
           \cup (IF http.got_too_many_requests THEN {} ELSE {"timeout"})

BenchPost == \E kind \in BenchResponses : HttpPost(kind) /\ UNCHANGED chat

\* the documents of the server of the client class
BenchDocs(cls) == IF cls = "ChutesClient" THEN ChutesDocs ELSE OllamaDocs

BenchAttempt == \E o \in ChutesDocs : ChatAttempt(o)

\* the documents that answer a chat: the server sends a document that is no object,
\* on which the test falls back to send_prompt, once in a test function at most
ChatDocs ==
    {doc \in OllamaDocs \cup {NoDoc} : doc.kind = "not_dict" => bench.prompts = 0}

Reply == \E doc \in ChatDocs : BenchReply(doc)

PromptReply == \E doc \in BenchDocs(bench.client) \cup {NoDoc} : BenchPromptReply(doc)

GeneratedReply ==
    \E doc \in BenchDocs(bench.client) \cup {NoDoc} : GeneratedProgramReply(doc)

ExplanationReply ==
    \E doc \in ChatDocs, text \in ExplanationTexts \cup {"None"} :
        ConversationReply(doc, text)

ExplanationPromptReply ==
    \E doc \in BenchDocs(bench.client) \cup {NoDoc}, text \in ExplanationTexts \cup {"None"} :
        ConversationPromptReply(doc, text)

InitBench ==
    /\ InterpreterInit(BenchFiles)
    /\ PairIdle
    /\ registry = PredefinedRegistry
    /\ environ \in BenchEnvironments
    /\ reg_call = NoRegCall
    /\ reg_history = <<>>
    /\ reg_overrides = {}
    /\ ClientIdle

NextBench ==
    \/ StartBench
    \/ StartGeneratedProgram
    \/ StartConversation
    \/ BenchSend
    \/ ConversationSend
    \/ ChatTurn
    \/ BenchPost
    \/ Backoff
    \/ Sleep
    \/ BenchAttempt
    \/ ChatPause
    \/ Reply
    \/ BenchSendPrompt
    \/ PromptReply
    \/ GeneratedReply
    \/ ExplanationReply
    \/ ExplanationPromptReply
    \/ BenchReset
    \/ BenchApply
    \/ BenchExecute
    \/ EvalNode
    \/ Finish
    \/ BenchCheck
    \/ BenchCleanup
    \/ GeneratedProgramCheck
    \/ BenchEnd

SpecBench == InitBench /\ [][NextBench]_vars

(***************************************************************************)
(* Properties.                                                             *)
(***************************************************************************)
IsStderr(e) == e.stream = "stderr"

\* the calls the output handler of the call received on the "stderr" stream
StderrCalls == SelectSeq(events, IsStderr)

NumKinds == Len(original_token_types)

Catalog == load_keywords(keyword_file)

\* exactly one surface keyword for every original token kind
IsBijection(m) ==
    \A kind \in Range(original_token_types) :
        Cardinality({k \in DOMAIN m : m[k] = kind}) = 1

PairwiseDistinct(ws) == \A i, j \in 1..Len(ws) : ws[i] = ws[j] => i = j

\* C1: a call of execute that follows another on the same source and handlers, with
\* no reset in between, delivers the events, prompts and outcome of the run before.
RerunDeliversSameEvents ==
    (/\ pc = "returned"
     /\ prev # <<>>
     /\ prev[1].source = call.source
     /\ prev[1].output_handler = call.output_handler
     /\ prev[1].input_handler = call.input_handler)
        => /\ events = prev[1].events
           /\ prompts = prev[1].prompts
           /\ raised = prev[1].raised

\* C2: every map apply_random_keywords installs for a seed is the map it installed
\* for that seed before, whatever ran in between; the installed map is the lexer's table.
SameSeedSameMap ==
    /\ \A p, q \in installs : p[1] = q[1] => p[2] = q[2]
    /\ kw_call.outcome = "ok" =>
           /\ reserved = kw_call.built
           /\ \E p \in installs : p[1] = kw_call.seed /\ p[2] = reserved

\* C2 witness: a seed installed a second time, after the map of another seed
SeedInstalledTwice ==
    \E p, q \in installs : p[3] = 2 /\ q[1] # p[1] /\ kw_call.seed = p[1]

\* C3 as claimed: with a catalog of at least as many words as kinds the map built is
\* a bijection, repeated words or not.
BuiltMapIsBijection ==
    (kw_call.outcome # "none" /\ Len(Catalog) >= NumKinds) => IsBijection(kw_call.built)

\* C3 amended: with a catalog of at least as many words as kinds, the map built is a
\* bijection whenever the words the shuffle puts first, one per kind, are pairwise distinct.
BuiltMapIsBijectionOnDistinctWords ==
    (/\ kw_call.outcome # "none"
     /\ Len(Catalog) >= NumKinds
     /\ PairwiseDistinct(Prefix(kw_call.keywords, NumKinds)))
        => /\ IsBijection(kw_call.built)
           /\ DOMAIN kw_call.built = Range(Prefix(kw_call.keywords, NumKinds))

\* C3 witness: a bijection built from a catalog that holds a repeated word
BijectionFromRepeatedWords ==
    /\ kw_call.outcome = "ok"
    /\ ~PairwiseDistinct(Catalog)
    /\ IsBijection(reserved)
    /\ reserved # original_reserved

\* C4: with fewer words than kinds (a missing file gives none) the call raises the
\* interpreter's exception for a file that is too short.
ShortCatalogRaises ==
    (kw_call.outcome # "none" /\ Len(Catalog) < NumKinds)
        => /\ kw_call.outcome = "raised"
           /\ kw_call.cls = "InterpreterException"
           /\ kw_call.error = TooShortError(NumKinds, Len(Catalog))

\* C4 witness: the call raised with the keyword file missing
RaisedOnMissingFile ==
    /\ ~keyword_file.present
    /\ kw_call.outcome = "raised"
    /\ kw_call.keywords = <<>>

\* C5: a call with disable_warnings = True propagates no exception to its caller.
NoRaiseWhenWarningsDisabled ==
    (pc = "returned" /\ call.disable_warnings) => raised = "None"

\* C6: a run that hit a failure has delivered exactly one "stderr" call to its output
\* handler, with the message "<class name>: <text>"; a run without failure, and a
\* run that is still evaluating, none.
OneStderrCallPerFailure ==
    call.output_handler # "None" =>
        /\ pc = "running" => StderrCalls = <<>>
        /\ pc = "returned" =>
               StderrCalls = IF fault = NoFault THEN <<>>
                             ELSE <<[stream |-> "stderr",
                                     message |-> <<fault.cls, ": ">> \o fault.text]>>

\* C6 witness: a division by zero after a say, reported to a collecting handler
FailureReportedOnce ==
    /\ pc = "returned"
    /\ call.output_handler = "collect"
    /\ fault = DivisionFault
    /\ Len(events) = 2
    /\ events[1].stream = "stdout"
    /\ events[2].stream = "stderr"

\* C7: a call in strict mode (disable_warnings = False) that raises has sent no
\* "stderr" call to the output handler.
StrictRaiseSendsNoStderr ==
    (pc = "returned" /\ ~call.disable_warnings /\ raised # "None") => StderrCalls = <<>>

\* C8: when a call of execute has ended, the module-level handlers are the ones
\* installed before it.
HandlersRestored ==
    pc = "returned" =>
        /\ out_h = call.original_output_handler
        /\ in_h = call.original_input_handler

\* C9: a call given a time limit that evaluates a non-terminating loop eventually
\* returns, with a TimeoutError as the failure of the run.
TimedLoopReturns ==
    (/\ pc = "running"
     /\ call.max_time # NoTimeLimit
     /\ fault = NoFault
     /\ rest # <<>>
     /\ Head(rest) = "loop")
        ~> (pc = "returned" /\ fault.cls = "TimeoutError")

\* C10: a run of a program whose first statement divides by zero delivers exactly one
\* "stderr" call, and its message begins with the error kind of the division.
DivisionErrorKinds == {"ArithmeticError", "ZeroDivisionError", DivisionFault.cls}

DivisionReportsItsErrorKind ==
    (/\ pc = "returned"
     /\ call.entered
     /\ call.output_handler = "collect"
     /\ call.source # <<>>
     /\ call.source[1] = "div")
        => /\ Len(StderrCalls) = 1
           /\ StderrCalls[1].message[1] \in DivisionErrorKinds

\* the one "stderr" call of a run that ended with the redeclaration of int
RedeclaredIntReport ==
    <<[stream |-> "stderr",
       message |-> <<"DuplicateSymbol", ": ", "Cannot redeclare function '", "int", "'">>]>>

\* C11 as stated: a run of the one-statement program x = 10 / 0 with a collecting
\* output handler and disable_warnings = True, made after an earlier run and with no
\* reset in between, delivers exactly one "stderr" call, and its message is
\* "DuplicateSymbol: Cannot redeclare function 'int'".
DivAfterEarlierRunReportsDuplicateSymbol ==
    (/\ pc = "returned"
     /\ call.source = <<"div">>
     /\ call.output_handler = "collect"
     /\ call.disable_warnings
     /\ prev # <<>>)
        => StderrCalls = RedeclaredIntReport

\* C11, amended: the same, when the earlier run is one whose program parsed, so that
\* it went on to declare the builtins; after an earlier run that ended with a syntax
\* error the one "stderr" call reports the division.
DivAfterParsedRunReportsDuplicateSymbol ==
    (/\ pc = "returned"
     /\ call.source = <<"div">>
     /\ call.output_handler = "collect"
     /\ call.disable_warnings
     /\ prev # <<>>)
        => StderrCalls = IF prev[1].source # JunkProgram \/ call.symbols_before # {}
                         THEN RedeclaredIntReport
                         ELSE <<[stream |-> "stderr",
                                 message |-> <<DivisionFault.cls, ": ">> \o DivisionFault.text]>>

\* C11 witness: the division run after a hello-world run, ended by the redeclaration
DivRunAfterHelloWorld ==
    /\ pc = "returned"
    /\ call.source = <<"div">>
    /\ prev # <<>>
    /\ prev[1].source = <<"say">>
    /\ fault = DuplicateSymbolFault("int")
    /\ Len(events) = 1

\* what a run that halts at its first fault delivers: the events and prompts of the
\* statements up to and including the first one that raises, and that exception
RECURSIVE RunUntilFault(_, _, _, _, _)
RunUntilFault(stmts, oh, ih, name, asked) ==
    IF stmts = <<>>
    THEN [events |-> <<>>, prompts |-> <<>>, fault |-> NoFault]
    ELSE LET r == Eval(Head(stmts), oh, ih, name, asked)
         IN  IF r.fault # NoFault \/ ~r.completes
             THEN [events |-> r.events, prompts |-> r.prompts, fault |-> r.fault]
             ELSE LET t == RunUntilFault(Tail(stmts), oh, ih, r.name,
                                         asked + Len(r.prompts))
                  IN  [events |-> r.events \o t.events, prompts |-> r.prompts \o t.prompts,
                       fault |-> t.fault]

\* the exceptions raised before the first statement is evaluated
SetupFaults == {SyntaxFault.cls, "DuplicateSymbol"}

\* C12: a run that hit a fault has delivered the stdout events of the statements
\* before the faulting one, in order, then one "stderr" event as its last event, and
\* nothing of a later statement: no later stdout event, no later input-handler call.
\* A fault raised before the first statement leaves the "stderr" event alone.
HaltsAtFirstFault ==
    (/\ pc = "returned"
     /\ call.entered
     /\ call.output_handler # "None"
     /\ fault # NoFault
     /\ ~call.show_ast)
        => LET run == RunUntilFault(call.source, call.output_handler, call.input_handler,
                                    call.name_before, 0)
               err == [stream |-> "stderr", message |-> <<fault.cls, ": ">> \o fault.text]
           IN  IF fault.cls \in SetupFaults
               THEN events = <<err>> /\ prompts = <<>>
               ELSE /\ fault = run.fault
                    /\ events = run.events \o <<err>>
                    /\ prompts = run.prompts

\* C12 witness: the embedding example has ended with its first say delivered, then
\* the report of the division, and nothing of the say after it
ExampleHaltedAtDivision ==
    /\ pc = "returned"
    /\ call.source = EmbeddedExample
    /\ fault = DivisionFault
    /\ Len(events) = 2
    /\ events[1] = Event("stdout", <<"Hello World">>)
    /\ events[2].stream = "stderr"

\* C13: a call of execute made without a seed lexes its program with the original
\* keyword table, whatever apply_random_keywords installed before: the table of the
\* lexer during the call is the original one, and a say written with the original
\* keyword is not a syntax error.
NoSeedLexesOriginalKeywords ==
    (/\ pc \in {"running", "returned"}
     /\ call.entered
     /\ call.random_seed = NoSeed
     /\ ~call.random_seed_was_set)
        => /\ reserved = original_reserved
           /\ call.source = <<"say">> => fault.cls # SyntaxFault.cls

\* the handler a concurrent call passed for a kind of delivery
OwnHandler(r, kind) ==
    IF kind = "prompt" THEN threads[r].input_handler ELSE threads[r].output_handler

\* C14: with two concurrent calls of execute, everything a call delivers (output
\* events, the error event, input requests) goes to the handlers passed to that
\* call, and when both calls have returned the module-level handlers are the ones
\* installed before either started (none).
ConcurrentRunsKeepTheirHandlers ==
    /\ \A d \in delivered : d.to = OwnHandler(d.run, d.kind)
    /\ (\A r \in Runs : threads[r].pc = "done") => (out_h = "None" /\ in_h = "None")

\* C15: a call of apply_random_keywords leaves the interpreter state alone: the
\* reserved-word table of the lexer is the same after the call as before it, and the
\* process-wide generator is not reseeded: it continues from the state it was in.
ApplyLeavesInterpreterState ==
    [][ApplySeed =>
           /\ reserved' = reserved
           /\ rng' = Shuffle(load_keywords(keyword_file), rng).rng]_vars

\* the run of a program written with the original keywords under the original table,
\* from a symbol table and a value of name: the events and prompts it delivers
ReferenceRun(source, table, name, oh, ih) ==
    LET report(f) == <<[stream |-> "stderr", message |-> <<f.cls, ": ">> \o f.text]>>
        env == declare_env(table)
        run == RunUntilFault(source, oh, ih, name, 0)
    IN  IF ~Parses(source, original_reserved, original_reserved)
        THEN [events |-> report(SyntaxFault), prompts |-> <<>>]
        ELSE IF env.fault # NoFault
        THEN [events |-> report(env.fault), prompts |-> <<>>]
        ELSE [events |-> run.events \o (IF run.fault = NoFault THEN <<>> ELSE report(run.fault)),
              prompts |-> run.prompts]

\* the words of the text of a program that its author means as identifiers
Identifiers(source) == UNION {Range(StmtIdentifiers(source[i])) : i \in 1..Len(source)}

SayDeliversOneStdoutEvent ==
    (/\ pc = "returned"
     /\ call.entered
     /\ call.source = <<"say">>
     /\ ~call.show_ast
     /\ call.output_handler = "collect"
     /\ call.symbols_before = {}
     /\ reserved = original_reserved)
        => /\ events = <<[stream |-> "stdout", message |-> <<"Hello World">>]>>
           /\ console = <<>>

\* C17 witness: the hello-world run in a fresh interpreter has ended without a fault
HelloWorldRunEnded ==
    /\ pc = "returned"
    /\ call.source = <<"say">>
    /\ call.output_handler = "collect"
    /\ call.symbols_before = {}
    /\ fault = NoFault
    /\ Len(events) = 1

IsAsk(stmt) == stmt = "ask"

\* C18: in a run with an input handler that evaluated its whole program, every ask
\* statement called the handler exactly once, with exactly the prompt, and the string
\* the handler returned is the value of the ask expression: the program of the
\* input-handler test emits one stdout event, the concatenation
\* "Hello, " + answer + "!".
AskCallsHandlerOnceAndYieldsItsAnswer ==
    (/\ pc = "returned"
     /\ call.entered
     /\ call.input_handler = "mock"
     /\ call.output_handler = "collect"
     /\ fault = NoFault
     /\ rest = <<>>)
        => /\ Len(prompts) = Len(SelectSeq(call.source, IsAsk))
           /\ \A i \in 1..Len(prompts) : prompts[i] = <<"Enter your name: ">>
           /\ (call.source # <<>> /\ IsAsk(call.source[Len(call.source)]))
                  => name_value = <<IF Len(prompts) = 1 THEN "Test User"
                                    ELSE "Default input">>
           /\ call.source = InputExample =>
                  events = <<[stream |-> "stdout",
                              message |-> <<"Hello, ", "Test User", "!">>]>>

\* C18 witness: the program of the input-handler test has ended without a fault
InputExampleRunEnded ==
    /\ pc = "returned"
    /\ call.source = InputExample
    /\ call.input_handler = "mock"
    /\ fault = NoFault
    /\ Len(prompts) = 1
    /\ Len(events) = 1

\* C19: a call of get_client with a model id that is not in the registry raises
\* ValueError, builds no client, and leaves the registry as it was.
UnknownModelRaisesValueError ==
    (/\ reg_call.op = "get_client"
     /\ reg_call.model_id \notin Range(list_models(reg_call.before)))
        => /\ reg_call.outcome = "raised"
           /\ reg_call.error = "ValueError"
           /\ reg_call.client = NoClient
           /\ registry = reg_call.before

\* C19 witness: get_client("invalid/model") raised after a model was registered
InvalidModelRequested ==
    /\ reg_call.op = "get_client"
    /\ reg_call.model_id = InvalidId
    /\ reg_call.outcome = "raised"
    /\ CustomId \in Range(list_models(registry))

\* the options a client holds: its config and the options its constructor keeps as
\* attributes
Held(client) ==
    [k \in DOMAIN client.config \cup DOMAIN client.attrs |->
        IF k \in DOMAIN client.attrs THEN client.attrs[k] ELSE client.config[k]]

\* the client holds every option of the config, with the value given there
ConfiguredWith(client, config) ==
    \A k \in DOMAIN config : k \in DOMAIN Held(client) /\ Held(client)[k] = config[k]

\* the last call was get_client(id), without additional config, for a registered id
GotRegisteredModel ==
    /\ reg_call.op = "get_client"
    /\ reg_call.additional = <<>>
    /\ reg_call.model_id \in DOMAIN reg_history

\* C20: after any sequence of register_model calls, list_models() holds
\* exactly the predefined ids and the registered ids, and get_client(id) builds an
\* instance of the class last registered for id, configured with the config last
\* registered for id.
RegisteredModelIsBuilt ==
    /\ Range(list_models(registry)) = PredefinedIds \cup DOMAIN reg_history
    /\ GotRegisteredModel =>
           /\ reg_call.outcome = "ok"
           /\ reg_call.client.cls = reg_history[reg_call.model_id].cls
           /\ ConfiguredWith(reg_call.client, reg_history[reg_call.model_id].config)

\* C21: a client that get_client built holds every option of the additional config
\* with the value given there and every other option of the base config with its
\* base value, and the call leaves the registry as it was: a call without additional
\* config gets the base values, whatever additional config earlier calls passed.
AdditionalConfigOverridesForThatClientOnly ==
    (reg_call.op = "get_client" /\ reg_call.outcome = "ok")
        => LET base == Entry(reg_call.before, reg_call.model_id).config
               extra == reg_call.additional
               got == Held(reg_call.client)
           IN  /\ registry = reg_call.before
               /\ \A k \in DOMAIN extra : k \in DOMAIN got /\ got[k] = extra[k]
               /\ \A k \in DOMAIN base \ DOMAIN extra : k \in DOMAIN got /\ got[k] = base[k]

\* C21 witness: a client built without additional config for an id whose base config
\* has a base_url, after a client was built for that id with another base_url
BaseValuesAfterOverride ==
    /\ reg_call.op = "get_client"
    /\ reg_call.outcome = "ok"
    /\ reg_call.additional = <<>>
    /\ reg_call.model_id \in reg_overrides
    /\ reg_call.client.base_url = "http://custom-url:11434"
    /\ "base_url" \in DOMAIN Entry(registry, reg_call.model_id).config

\* C26: while a call of execute runs and when it has ended, the lexer's reserved-word
\* map is the map the call found, with and without a seed: the keywords are remapped
\* only by what the caller did before the call.
ExecuteKeepsReservedWords ==
    (call.made /\ pc \in {"running", "returned"}) => reserved = call.reserved_before

\* C26 witness: a call with a seed has ended and the lexer still has the original keywords
SeededRunOnOriginalKeywords ==
    /\ pc = "returned"
    /\ call.random_seed_was_set
    /\ call.random_seed \in Seeds
    /\ call.reserved_before = original_reserved
    /\ reserved = original_reserved

\* C27: after apply_random_keywords raised because the shuffled catalog is shorter than
\* the list of token types (a short file, or a missing one, which loads as empty), the
\* lexer's reserved-word map is the map before the call, be it the original one or
\* the map an earlier call installed from a file that was long enough then.
FailedApplyKeepsReservedWords ==
    (kw_call.outcome = "raised" /\ kw_call.error[1] = "Keyword file is too short")
        => reserved = kw_call.reserved_before

\* C27 witness: apply_random_keywords raised on a file that is present and too short,
\* called while a remapped map was installed, and that map is still the installed one
ShortCatalogLeftMapAlone ==
    /\ kw_call.outcome = "raised"
    /\ kw_call.error[1] = "Keyword file is too short"
    /\ keyword_file.present
    /\ kw_call.keywords # <<>>
    /\ kw_call.reserved_before # original_reserved
    /\ reserved = kw_call.reserved_before

\* C28: from the first statement of a call of execute until something else writes the
\* flag, parser.disable_warnings is the disable_warnings argument of that call, on
\* every exit path: execute does not put the earlier value back.
DisableWarningsIsLastArgument ==
    (call.made /\ pc \in {"running", "returned"})
        => p_disable_warnings = call.disable_warnings

\* C28 witness: a call with disable_warnings=False has ended, by an exception, after a
\* call with disable_warnings=True, and the flag is False
FlagNotRestoredAfterRaise ==
    /\ pc = "returned"
    /\ raised # "None"
    /\ call.disable_warnings_before
    /\ ~call.disable_warnings
    /\ ~p_disable_warnings

\* the POST requests the call has sent
Posts == Len(http.responses)

NoTooMany == \A i \in 1..Posts : http.responses[i] # "too_many"

\* the responses with a success status
Successes == {i \in 1..Posts : ~IsRequestException(http.responses[i])}

FirstTooMany(k) ==
    /\ http.responses[k] = "too_many"
    /\ \A j \in 1..(k - 1) : http.responses[j] # "too_many"

\* the call sends at most num_retries + 1 requests and raises RequestException exactly
\* when that many requests failed
AtMostRetriesPlusOne ==
    /\ Posts <= http.num_retries + 1
    /\ (http.pc = "raised" /\ http.error = "RequestException")
           <=> (Posts = http.num_retries + 1 /\ Successes = {})

\* C22 as stated: with no 429 among the responses, the call sends at most n + 1
\* requests, raises RequestException exactly when n + 1 requests failed, and has
\* returned the JSON of the first response with a success status as its last request.
RequestReturnsFirstSuccess ==
    NoTooMany
        => /\ AtMostRetriesPlusOne
           /\ \A i \in Successes :
                  /\ Posts = i
                  /\ http.pc = "returned"
                  /\ http.result = i

\* C22: with no 429 among the responses, the call sends at most n + 1 requests, raises
\* RequestException exactly when n + 1 requests failed, and the first response with a
\* success status is its last request: the call has returned the JSON of that response,
\* or has raised ValueError when the body of that response is not JSON.
RequestEndsAtFirstSuccess ==
    NoTooMany
        => /\ AtMostRetriesPlusOne
           /\ \A i \in Successes :
                  /\ Posts = i
                  /\ IF http.responses[i] = "ok"
                     THEN http.pc = "returned" /\ http.result = i
                     ELSE http.pc = "raised" /\ http.error = "ValueError"

\* C22 witness: the call returned the JSON of the last request it may send, after every
\* earlier request failed
ReturnedOnLastRetry ==
    /\ NoTooMany
    /\ http.num_retries = MaxRetries
    /\ Posts = MaxRetries + 1
    /\ http.pc = "returned"
    /\ http.result = Posts

\* the sleeps of line 131, one after each failed request but the last of a call that
\* gave up
Delays == SelectSeq(http.slept, LAMBDA s : s.line = 131)

\* the sleeps of line 103
Backoffs == SelectSeq(http.slept, LAMBDA s : s.line = 103)

\* the extra retries are granted once, by the first 429, after a sleep of 10 to 40
\* seconds; the first 429 also sets the delay of the next sleep to BackoffDelay
ExtraRetriesOnce ==
    /\ Posts <= http.num_retries + 1 + ExtraRetries
    /\ http.grants <= 1
    /\ http.got_too_many_requests <=> ~NoTooMany
    /\ http.grants = 1 <=> (http.got_too_many_requests /\ http.pc # "backoff")
    /\ http.current_max_retries = http.num_retries + ExtraRetries * http.grants
    /\ Len(Backoffs) = IF NoTooMany THEN 0 ELSE 1
    /\ \A k \in 1..Len(Backoffs) :
           /\ BackoffBase * Backoffs[k].den <= Backoffs[k].num
           /\ Backoffs[k].num < (BackoffBase + BackoffSpread) * Backoffs[k].den
    /\ \A k \in 1..Len(Delays) :
           /\ Delays[k].den = 1
           /\ Delays[k].num = BackoffDelay <=> FirstTooMany(k)

\* C23: a call with num_retries = n >= 0 ends, whatever the responses, having sent at
\* most n + 5 requests: the first 429 grants 4 more retries and sets the delay to 20
\* seconds, and no later response grants anything.
RequestEndsWithinExtraRetries ==
    /\ []ExtraRetriesOnce
    /\ (http.pc \in {"loop", "backoff", "sleep"}) ~> (http.pc \in {"returned", "raised"})

\* C23 witness: the call gave up at request n + 5, after two 429 responses
GaveUpAfterExtraRetries ==
    /\ http.pc = "raised"
    /\ http.error = "RequestException"
    /\ Posts = http.num_retries + 1 + ExtraRetries
    /\ Cardinality({i \in 1..Posts : http.responses[i] = "too_many"}) >= 2

\* C30 as stated: while a call of execute with random_seed_was_set=True runs, the
\* generator is in the state that seeding with random_seed alone gives, whatever used
\* the generator before the call.
SeededRunStartsFromSeed ==
    (pc = "running" /\ call.entered /\ call.random_seed_was_set)
        => rng = SeedState(call.random_seed)

\* C30: while a call of execute with random_seed_was_set=True and an integer
\* random_seed runs, the generator is in the state that seeding with random_seed alone
\* gives, whatever used the generator before the call.
IntegerSeededRunStartsFromSeed ==
    (pc = "running" /\ call.entered /\ call.random_seed_was_set
                    /\ call.random_seed # NoSeed)
        => rng = SeedState(call.random_seed)

\* C30 witness: a seeded call runs after a request reseeded the generator from the
\* clock and after apply_random_keywords shuffled the catalog with another seed
SeededRunAfterReseeds ==
    /\ pc = "running"
    /\ call.entered
    /\ call.random_seed_was_set
    /\ call.random_seed = 1
    /\ http.got_too_many_requests
    /\ kw_call.outcome = "ok"
    /\ kw_call.seed = 2

\* the calls of _make_http_request the call of send_chat has made
Requests == chat.requests

\* the calls of _make_http_request that have ended
Turns == Len(chat.outcomes)

\* the turns before turn k all ended in KeyError or IndexError
ParsingErrorsBefore(k) ==
    \A i \in 1..(k - 1) : IsParsingError(TurnException(chat.outcomes[i]))

\* what the two statements of C24 share: at most 4 calls, the content of the first
\* response that has one is returned, another exception leaves at once, and the
\* RuntimeError after the loop is not raised
ChatLoopShape ==
    /\ Requests <= MAX_PARSING_RETRIES + 1
    /\ Requests = IF chat.pc = "request" THEN Turns + 1 ELSE Turns
    /\ ParsingErrorsBefore(Turns)
    /\ chat.pc = "returned"
           <=> (Turns > 0 /\ chat.outcomes[Turns].kind = "content")
    /\ chat.pc = "returned" => chat.result = chat.outcomes[Turns].content
    /\ (Turns > 0 /\ ~IsParsingError(TurnException(chat.outcomes[Turns]))
                  /\ chat.outcomes[Turns].kind # "content")
           => /\ chat.pc = "raised"
              /\ chat.error.cls = TurnException(chat.outcomes[Turns])
    /\ chat.error.cls # "RuntimeError"

FourParsingErrors ==
    /\ Turns = MAX_PARSING_RETRIES + 1
    /\ ParsingErrorsBefore(Turns + 1)

\* C24 as stated: send_chat calls _make_http_request at most 4 times, returns the
\* content of the first response that has one, lets another exception leave at once,
\* never raises the RuntimeError, and raises ValueError exactly when 4 responses in a
\* row lack the path.
ChatRaisesValueErrorOnlyAfterFour ==
    /\ ChatLoopShape
    /\ (chat.pc = "raised" /\ chat.error.cls = "ValueError") <=> FourParsingErrors

\* C24: send_chat calls _make_http_request at most 4 times, returns the content of the
\* first response that has one, lets another exception leave at once, never raises the
\* RuntimeError, and raises its own ValueError (ECC001) exactly when 4 responses in a
\* row lack the path.
ChatRaisesParsingErrorOnlyAfterFour ==
    /\ ChatLoopShape
    /\ (chat.pc = "raised" /\ chat.error.code = "ECC001") <=> FourParsingErrors
    /\ chat.error.code = "ECC001" => chat.error.cls = "ValueError"

\* C24 witness: send_chat raised after a KeyError and an IndexError among 4 parsing errors
RaisedAfterFourParsingErrors ==
    /\ chat.pc = "raised"
    /\ chat.error.code = "ECC001"
    /\ Requests = 4
    /\ \E i, j \in 1..4 : /\ chat.outcomes[i].kind = "no_choices"
                          /\ chat.outcomes[j].kind = "empty_choices"

\* the shots the benchmark function has finished, with what each produced
Shots == 1..Len(bench.log)

\* the shot failed: no code block, stderr output, or stdout that is not the expected one
ShotFailed(entry) ==
    \/ entry.branch = "no_code"
    \/ entry.branch = "stderr" /\ entry.stderr > 0
    \/ entry.branch = "wrong" /\ entry.stderr = 0 /\ ~entry.stdout_ok

\* the shot ran a program that produced no stderr and exactly the expected stdout
ShotSucceeded(entry) ==
    entry.branch # "no_code" /\ entry.stderr = 0 /\ entry.stdout_ok

\* system, then user, assistant, user, ...; no message when the function ended before
\* its loop, without a request
RolesAlternate ==
    IF bench.conversation_history = <<>> THEN bench.requests = 0 ELSE
    /\ bench.conversation_history[1] = "system"
    /\ \A i \in 2..Len(bench.conversation_history) :
           bench.conversation_history[i] = IF i % 2 = 0 THEN "user" ELSE "assistant"

\* C25: the multi-shot test sends at most num_shots chat requests (calls of
\* client.send_chat), and request k + 1 only when shots 1..k have failed (no code
\* block, stderr output, or a stdout that is not the expected one); a shot counts as
\* passed exactly when its program produced no stderr and the expected stdout, it is
\* then the last shot, and the function returns only after such a shot; every failed
\* shot that is not the last one has added one assistant and one user message, and the
\* roles after the system message alternate; while a request is in flight, through
\* its retries, parsing retries and sleeps, and through the send_prompt the test falls
\* back to in the same shot when send_chat raised AttributeError, no message is added.
MultiShotStopsAtFirstSuccess ==
    bench.test = MultiShot
        => /\ bench.requests <= bench.num_shots
           /\ bench.requests <= Len(bench.log) + 1
           /\ \A i \in Shots :
                  /\ i <= bench.requests
                  /\ bench.log[i].branch = "passed" <=> ShotSucceeded(bench.log[i])
                  /\ bench.log[i].branch # "passed" => ShotFailed(bench.log[i])
                  /\ bench.log[i].branch = "passed"
                         => /\ i = Len(bench.log)
                            /\ bench.requests = i
                            /\ bench.pc \in {"cleanup", "returned"}
           /\ bench.pc = "returned"
                  => bench.log # <<>> /\ bench.log[Len(bench.log)].branch = "passed"
           /\ RolesAlternate
           /\ bench.pc = "send"
                  => /\ bench.requests = Len(bench.log)
                     /\ Len(bench.conversation_history) = 2 + 2 * Len(bench.log)
           /\ bench.pc \in {"chat", "fallback", "prompt"}
                  => /\ bench.requests = Len(bench.log) + 1
                     /\ Len(bench.conversation_history) = 2 + 2 * Len(bench.log)
           /\ bench.prompts <= bench.requests

\* C25 witness: the function returned at the third shot of four, after a reply without
\* a code block and a program that wrote to stderr, one of the three replies being the
\* one of the send_prompt the test fell back to
PassedAtThirdShot ==
    /\ bench.test = MultiShot
    /\ bench.pc = "returned"
    /\ bench.num_shots = 4
    /\ bench.requests = 3
    /\ bench.prompts = 1
    /\ Len(bench.log) = 3
    /\ bench.log[1].branch = "no_code"
    /\ bench.log[2].branch = "stderr"
    /\ bench.conversation_history
           = <<"system", "user", "assistant", "user", "assistant", "user", "assistant">>

\* the exceptions the benchmark's input handler raises
InputHandlerFaults ==
    {InputHandlerFault(ih, <<"Enter your name: ">>) : ih \in HarnessHandlers}

\* C29: in the benchmark, when mamba_execute has ended on the exception of the input
\* handler, it has not raised and the output log holds one stderr event, the message
\* of that exception; the shot is handled by the stderr branch, and no shot is handled
\* by the except branch (E004).
InputFailureHandledAsStderr ==
    /\ (bench.pc = "running" /\ pc = "returned" /\ fault \in InputHandlerFaults)
           => /\ raised = "None"
              /\ StreamMessages(events, "stderr") = <<error_message(fault)>>
    /\ \A i \in Shots :
           /\ bench.log[i].fault = "ValueError" => bench.log[i].branch = "stderr"
           /\ bench.log[i].branch # "exception"
    /\ bench.verdict # ErrorCode("exception")

\* C29 witness: a shot whose program asked for input the test case does not have was
\* handled by the stderr branch, and the next request was sent
InputFailureGotGuidance ==
    /\ bench.test = MultiShot
    /\ bench.requests = 2
    /\ bench.log # <<>>
    /\ bench.log[1].fault = "ValueError"
    /\ bench.log[1].branch = "stderr"
    /\ bench.log[1].stderr = 1
    /\ ~bench.test_case.has_input

====
